---- MODULE Spec2Model ----
(***************************************************************************)
(* A model of kitty/fonts/box_drawing.py: the procedural rasterizer of     *)
(* box-drawing, block and geometric characters.                            *)
(*                                                                         *)
(* A pixel buffer is a function from 0..len-1 to 0..255 (a bytearray).     *)
(* Every drawing routine is an operator that takes the process-wide        *)
(* configuration it reads (g.dpi is the global _dpi, g.scale the global    *)
(* scale, in thousandths of a point) and the buffer it draws on, and       *)
(* yields a record [buf, err]: the buffer as the routine leaves it and     *)
(* "ok" or the name of the Python exception that ended it.  An exception   *)
(* keeps the pixels written before it was raised.                          *)
(*                                                                         *)
(* Floating point: the DPI values and scale tables of the model are such   *)
(* that pts * (dpi / 72.0) and frac * height round as the exact rationals  *)
(* do; the Bezier search of the D shape is computed in exact dyadic        *)
(* rationals over unbounded naturals (Big...), which decide every          *)
(* comparison of the search as the doubles of the code do for the cell     *)
(* sizes of the model.                                                     *)
(***************************************************************************)
EXTENDS Integers, Sequences, FiniteSets, TLC

\* -------------------------------------------------------------- Python

\* range(a, b) as a sequence
Range(a, b) == [k \in 1..(IF b > a THEN b - a ELSE 0) |-> a + k - 1]

\* seq[i] of Python: a negative i counts from the end
PyIndex(n, i) == IF i < 0 THEN i + n ELSE i

PyIndexOK(n, i) == i \in (-n)..(n - 1)

Min(a, b) == IF a <= b THEN a ELSE b

Max(a, b) == IF a >= b THEN a ELSE b

Abs(a) == IF a < 0 THEN -a ELSE a

\* math.ceil(a / b) for b > 0
CeilDiv(a, b) == -((-a) \div b)

\* round(a / b) of Python 3 for b > 0: to the nearest integer, a tie to the even one
PyRound(a, b) ==
    LET q == a \div b
        r == a % b
    IN  IF 2 * r < b THEN q
        ELSE IF 2 * r > b THEN q + 1
        ELSE IF q % 2 = 0 THEN q ELSE q + 1

\* ----------------------------------------------------------- characters
\* A character is its code point.  The character literals of the source are named
\* here Uxxxx; they are the starts of the generated families and the selectors that
\* the corner, T, arc and double-line routines compare their which against.

U250C == 9484

U2510 == 9488

U2514 == 9492

U2518 == 9496

U251C == 9500

U2524 == 9508

U252C == 9516

U2534 == 9524

U253C == 9532

U256D == 9581

U256E == 9582

U2570 == 9584

U256F == 9583

U2552 == 9554

U2555 == 9557

U2558 == 9560

U255B == 9563

U2553 == 9555

U2556 == 9558

U2559 == 9561

U255C == 9564

U2554 == 9556

U2557 == 9559

U255A == 9562

U255D == 9565

U255F == 9567

U2562 == 9570

U2564 == 9572

U2567 == 9575

\* ------------------------------------------------------------- buffers

BufLen(buf) == Cardinality(DOMAIN buf)

\* bytearray(n)
ZeroBuf(n) == [i \in 0..(n - 1) |-> 0]

\* the outcome of a routine: the buffer (b @@ <<>> is b with every pixel computed)
\* and "ok" or the exception raised
Res(b, e) == [buf |-> b @@ <<>>, err |-> e]

\* CHOOSE only \in {F(v) : v \in {e}} : TRUE  is F of the value of e, with e
\* evaluated once: the way a value computed by one statement is named and used by
\* the statements after it.

\* r, then F on r's buffer unless r raised
Then(r, F(_)) == (CHOOSE only \in {IF v.err = "ok" THEN F(v.buf) ELSE v : v \in {r}} : TRUE)

\* for o in outer: for i in inner: buf[Idx(o, i)] = v
\* An index outside -len..len-1 raises IndexError; the stores made before it stay.
StoreLoop(buf, outer, inner, Idx(_, _), v) ==
    LET n == BufLen(buf)
        P == (1..Len(outer)) \X (1..Len(inner))
        At(p) == Idx(outer[p[1]], inner[p[2]])
        Before(p, q) == p[1] < q[1] \/ (p[1] = q[1] /\ p[2] < q[2])
        Bad == {p \in P : ~PyIndexOK(n, At(p))}
    IN  (CHOOSE only \in {LET first == CHOOSE p \in bad : \A q \in bad : q = p \/ Before(p, q)
                Stored == IF bad = {} THEN P ELSE {p \in P : Before(p, first)}
            IN  (CHOOSE only \in {Res([j \in 0..(n - 1) |-> IF j \in W THEN v ELSE buf[j]],
                        IF bad = {} THEN "ok" ELSE "IndexError")
                    : W \in {{PyIndex(n, At(p)) : p \in Stored}}} : TRUE)
            : bad \in {Bad}} : TRUE)

\* ----------------------------------------------------------- thickness

\* scale = (0.001, 1., 1.5, 2.), in thousandths of a point
default_scale == <<1, 1000, 1500, 2000>>

\* scale[level] raises IndexError outside -4..3
level_ok(level) == PyIndexOK(4, level)

\* int(math.ceil(pts * (_dpi / 72.0)))
thickness(g, level) ==
    CeilDiv(g.scale[PyIndex(4, level) + 1] * g.dpi, 72000)

\* --------------------------------------------------- primitive drawing

\* variant: the band starts one row lower
draw_hline_low(g, buf, width, x1, x2, y, level) ==
    IF ~level_ok(level) THEN Res(buf, "IndexError")
    ELSE LET sz == thickness(g, level)
             start == y - sz \div 2 + 1
         IN  StoreLoop(buf, Range(start, start + sz), Range(x1, x2),
                       LAMBDA yy, xx : yy * width + xx, 255)

draw_hline(g, buf, width, x1, x2, y, level) ==
    IF ~level_ok(level) THEN Res(buf, "IndexError")
    ELSE LET sz == thickness(g, level)
             start == y - sz \div 2
         IN  StoreLoop(buf, Range(start, start + sz), Range(x1, x2),
                       LAMBDA yy, xx : yy * width + xx, 255)

\* variant: the line inverts the pixels it covers
draw_vline_invert(g, buf, width, y1, y2, x, level) ==
    IF ~level_ok(level) THEN Res(buf, "IndexError")
    ELSE LET sz == thickness(g, level)
             start == x - sz \div 2
             Drawn(v) == StoreLoop(buf, Range(start, start + sz), Range(y1, y2),
                                   LAMBDA xx, yy : xx + yy * width, v)
         IN  Res([q \in DOMAIN buf |-> IF Drawn(255).buf[q] # Drawn(0).buf[q]
                                       THEN 255 - buf[q] ELSE buf[q]], Drawn(255).err)

draw_vline(g, buf, width, y1, y2, x, level) ==
    IF ~level_ok(level) THEN Res(buf, "IndexError")
    ELSE LET sz == thickness(g, level)
             start == x - sz \div 2
         IN  StoreLoop(buf, Range(start, start + sz), Range(y1, y2),
                       LAMBDA xx, yy : xx + yy * width, 255)

\* any which other than 'left' is drawn as the right half
half_hline(g, buf, width, height, level, which, extend_by) ==
    LET x == IF which = "left" THEN <<0, extend_by + width \div 2>>
             ELSE <<width \div 2 - extend_by, width>>
    IN  draw_hline(g, buf, width, x[1], x[2], height \div 2, level)

\* any which other than 'top' is drawn as the bottom half
half_vline(g, buf, width, height, level, which, extend_by) ==
    LET y == IF which = "top" THEN <<0, height \div 2 + extend_by>>
             ELSE <<height \div 2 - extend_by, height>>
    IN  draw_vline(g, buf, width, y[1], y[2], width \div 2, level)

\* ---------------------------------------------------------------- holes

hole_factor == 8

holes_num_ok(num) == num \in {1, 2, 3}

\* the centres of the holes; pts is unbound for any other num
hole_pts(sz, hole_sz, num) ==
    IF num = 1 THEN <<sz \div 2>>
    ELSE IF num = 2
    THEN LET ssz == (sz - 2 * hole_sz) \div 3
         IN  <<ssz + hole_sz \div 2, 2 * ssz + hole_sz \div 2 + hole_sz>>
    ELSE LET ssz == (sz - 3 * hole_sz) \div 4
         IN  <<ssz + hole_sz \div 2, 2 * ssz + hole_sz \div 2 + hole_sz,
               3 * ssz + 2 * hole_sz + hole_sz \div 2>>

\* variant: every hole is one position wider
get_holes_wide(sz, hole_sz, num) ==
    LET pts == hole_pts(sz, hole_sz, num)
    IN  [k \in 1..Len(pts) |->
            Range(pts[k] - hole_sz \div 2, pts[k] - hole_sz \div 2 + hole_sz + 1)]

\* a list of holes, each the tuple of its positions
get_holes(sz, hole_sz, num) ==
    LET pts == hole_pts(sz, hole_sz, num)
    IN  [k \in 1..Len(pts) |->
            Range(pts[k] - hole_sz \div 2, pts[k] - hole_sz \div 2 + hole_sz)]

RECURSIVE Flatten(_)
Flatten(ss) == IF ss = <<>> THEN <<>> ELSE Head(ss) \o Flatten(Tail(ss))

add_hholes(g, buf, width, height, level, num) ==
    IF ~level_ok(level) THEN Res(buf, "IndexError")
    ELSE IF ~holes_num_ok(num) THEN Res(buf, "UnboundLocalError")
    ELSE LET line_sz == thickness(g, level)
             hole_sz == width \div hole_factor
             start == height \div 2 - line_sz \div 2
             holes == get_holes(width, hole_sz, num)
         IN  StoreLoop(buf, Range(start, start + line_sz), Flatten(holes),
                       LAMBDA yy, xx : yy * width + xx, 0)

add_vholes(g, buf, width, height, level, num) ==
    IF ~level_ok(level) THEN Res(buf, "IndexError")
    ELSE IF ~holes_num_ok(num) THEN Res(buf, "UnboundLocalError")
    ELSE LET line_sz == thickness(g, level)
             hole_sz == height \div hole_factor
             start == width \div 2 - line_sz \div 2
             holes == get_holes(height, hole_sz, num)
         IN  StoreLoop(buf, Range(start, start + line_sz), Flatten(holes),
                       LAMBDA xx, yy : xx + width * yy, 0)

hline(g, buf, width, height, level) ==
    Then(half_hline(g, buf, width, height, level, "left", 0),
         LAMBDA b : half_hline(g, b, width, height, level, "right", 0))

vline(g, buf, width, height, level) ==
    Then(half_vline(g, buf, width, height, level, "top", 0),
         LAMBDA b : half_vline(g, b, width, height, level, "bottom", 0))

hholes(g, buf, width, height, level, num) ==
    Then(hline(g, buf, width, height, level),
         LAMBDA b : add_hholes(g, b, width, height, level, num))

vholes(g, buf, width, height, level, num) ==
    Then(vline(g, buf, width, height, level),
         LAMBDA b : add_vholes(g, b, width, height, level, num))

cross(g, buf, width, height, a, b, c, d) ==
    Then(Then(Then(half_hline(g, buf, width, height, a, "left", 0),
                   LAMBDA b1 : half_hline(g, b1, width, height, b, "right", 0)),
              LAMBDA b2 : half_vline(g, b2, width, height, c, "top", 0)),
         LAMBDA b3 : half_vline(g, b3, width, height, d, "bottom", 0))

\* --------------------------------------------------------------- blocks

\* frac is given in eighths: frac8 / 8
\* variant: the row count is rounded down
vblock_floor(buf, width, height, frac8, gravity) ==
    LET num_rows == Min(height, (frac8 * height) \div 8)
        start == IF gravity = "top" THEN 0 ELSE height - num_rows
    IN  StoreLoop(buf, Range(start, start + num_rows), Range(0, width),
                  LAMBDA r, c : r * width + c, 255)

vblock(buf, width, height, frac8, gravity) ==
    LET num_rows == Min(height, PyRound(frac8 * height, 8))
        start == IF gravity = "top" THEN 0 ELSE height - num_rows
    IN  StoreLoop(buf, Range(start, start + num_rows), Range(0, width),
                  LAMBDA r, c : r * width + c, 255)

hblock(buf, width, height, frac8, gravity) ==
    LET num_cols == Min(width, PyRound(frac8 * width, 8))
        start == IF gravity = "left" THEN 0 ELSE width - num_cols
    IN  StoreLoop(buf, Range(0, height), Range(0, num_cols),
                  LAMBDA r, c : r * width + start + c, 255)

\* ------------------------------------------------- corners, T's, crosses

\* U250C, U2510, U2514, U2518: the light corners down-right, down-left, up-right, up-left
corner(g, buf, width, height, hlevel, vlevel, which) ==
    LET wh == IF which \in {U250C, U2514} THEN "right" ELSE "left"
        wv == IF which \in {U2514, U2518} THEN "top" ELSE "bottom"
    IN  IF ~level_ok(vlevel) THEN Res(buf, "IndexError")
        ELSE Then(half_hline(g, buf, width, height, hlevel, wh,
                             thickness(g, vlevel) \div 2),
                  LAMBDA b : half_vline(g, b, width, height, vlevel, wv, 0))

\* U2524 is the T with its arm to the left
vert_t(g, buf, width, height, a, b, c, which) ==
    Then(Then(half_vline(g, buf, width, height, a, "top", 0),
              LAMBDA b1 : half_hline(g, b1, width, height, b,
                                     IF which = U2524 THEN "left" ELSE "right", 0)),
         LAMBDA b2 : half_vline(g, b2, width, height, c, "bottom", 0))

\* U2534 is the T with its arm to the top
horz_t(g, buf, width, height, a, b, c, which) ==
    Then(Then(half_hline(g, buf, width, height, a, "left", 0),
              LAMBDA b1 : half_hline(g, b1, width, height, b, "right", 0)),
         LAMBDA b2 : half_vline(g, b2, width, height, c,
                                IF which = U2534 THEN "top" ELSE "bottom", 0))

\* --------------------------------------------------------- double lines

half_dhline(g, buf, width, height, level, which, only) ==
    LET x == IF which = "left" THEN <<0, width \div 2>> ELSE <<width \div 2, width>>
    IN  IF ~level_ok(level + 1) THEN Res(buf, "IndexError")
        ELSE LET gap == thickness(g, level + 1)
                 r1 == IF only # "bottom"
                       THEN draw_hline(g, buf, width, x[1], x[2], height \div 2 - gap, level)
                       ELSE Res(buf, "ok")
             IN  Then(r1, LAMBDA b :
                        IF only # "top"
                        THEN draw_hline(g, b, width, x[1], x[2], height \div 2 + gap, level)
                        ELSE Res(b, "ok"))

half_dvline(g, buf, width, height, level, which, only) ==
    LET y == IF which = "top" THEN <<0, height \div 2>> ELSE <<height \div 2, height>>
    IN  IF ~level_ok(level + 1) THEN Res(buf, "IndexError")
        ELSE LET gap == thickness(g, level + 1)
                 r1 == IF only # "right"
                       THEN draw_vline(g, buf, width, y[1], y[2], width \div 2 - gap, level)
                       ELSE Res(buf, "ok")
             IN  Then(r1, LAMBDA b :
                        IF only # "left"
                        THEN draw_vline(g, b, width, y[1], y[2], width \div 2 + gap, level)
                        ELSE Res(b, "ok"))

dvline(g, buf, width, height, only, level) ==
    Then(half_dvline(g, buf, width, height, level, "top", only),
         LAMBDA b : half_dvline(g, b, width, height, level, "bottom", only))

\* the second half is asked for as which='bottom', which half_dhline draws as the right half
dhline(g, buf, width, height, only, level) ==
    Then(half_dhline(g, buf, width, height, level, "left", only),
         LAMBDA b : half_dhline(g, b, width, height, level, "bottom", only))

\* U2552, U2555, U2558, U255B: down-right, down-left, up-right, up-left, double horizontal
dvcorner(g, buf, width, height, level, which) ==
    LET hw == IF which \in {U2552, U2558} THEN "right" ELSE "left"
        vw == IF which \in {U2558, U255B} THEN "top" ELSE "bottom"
    IN  Then(half_dhline(g, buf, width, height, 1, hw, "None"),
             LAMBDA b :
                IF ~level_ok(level + 1) \/ ~level_ok(level) THEN Res(b, "IndexError")
                ELSE half_vline(g, b, width, height, 1, vw,
                                thickness(g, level + 1) \div 2 + thickness(g, level)))

\* U2553, U2556, U2559, U255C: down-right, down-left, up-right, up-left, double vertical
dhcorner(g, buf, width, height, level, which) ==
    LET vw == IF which \in {U2559, U255C} THEN "top" ELSE "bottom"
        hw == IF which \in {U2553, U2559} THEN "right" ELSE "left"
    IN  Then(half_dvline(g, buf, width, height, 1, vw, "None"),
             LAMBDA b :
                IF ~level_ok(level + 1) \/ ~level_ok(level) THEN Res(b, "IndexError")
                ELSE half_hline(g, b, width, height, 1, hw,
                                thickness(g, level + 1) \div 2 + thickness(g, level)))

\* U2554, U2557, U255A, U255D: the double corners
dcorner(g, buf, width, height, level, which) ==
    LET hw == IF which \in {U2554, U255A} THEN "right" ELSE "left"
        vw == IF which \in {U255A, U255D} THEN "top" ELSE "bottom"
    IN  IF ~level_ok(level + 1) THEN Res(buf, "IndexError")
        ELSE
        LET hgap == thickness(g, level + 1)
            vgap == thickness(g, level + 1)
            x1a == IF hw = "left" THEN 0 ELSE width \div 2 - vgap
            x2a == IF hw = "left" THEN width \div 2 + vgap ELSE width
            ydelta == IF vw = "top" THEN hgap ELSE -hgap
            x1b == IF hw = "left" THEN x1a ELSE x1a + 2 * vgap
            x2b == IF hw = "left" THEN x2a - 2 * vgap ELSE x2a
            xdelta == IF hw = "right" THEN vgap ELSE -vgap
            yd == thickness(g, level) \div 2
            y1a == IF vw = "top" THEN 0 ELSE height \div 2 - (hgap + yd)
            y2a == IF vw = "top" THEN height \div 2 + hgap + yd ELSE height
            y1b == IF vw = "top" THEN y1a ELSE y1a + 2 * hgap
            y2b == IF vw = "top" THEN y2a - 2 * hgap ELSE y2a
        IN  Then(Then(Then(
                draw_hline(g, buf, width, x1a, x2a, height \div 2 + ydelta, level),
                LAMBDA b1 : draw_hline(g, b1, width, x1b, x2b, height \div 2 - ydelta, level)),
                LAMBDA b2 : draw_vline(g, b2, width, y1a, y2a, width \div 2 - xdelta, level)),
                LAMBDA b3 : draw_vline(g, b3, width, y1b, y2b, width \div 2 + xdelta, level))

\* U255F, U2562: vertical double line with a pip to the right, to the left;
\* U2564, U2567: horizontal double line with a pip down, up
dpip(g, buf, width, height, level, which) ==
    IF which \in {U255F, U2562}
    THEN Then(dvline(g, buf, width, height, "None", 1),
              LAMBDA b :
                LET left == width \div 2 - thickness(g, 2)
                    right == width \div 2 + thickness(g, 2)
                    x == IF which = U2562 THEN <<0, left>> ELSE <<right, width>>
                IN  draw_hline(g, b, width, x[1], x[2], height \div 2, level))
    ELSE Then(dhline(g, buf, width, height, "None", 1),
              LAMBDA b :
                LET top == height \div 2 - thickness(g, 2)
                    bottom == height \div 2 + thickness(g, 2)
                    y == IF which = U2567 THEN <<0, top>> ELSE <<bottom, height>>
                IN  draw_vline(g, b, width, y[1], y[2], width \div 2, level))

\* 'l' in which, 't' in which, for the selector strings of the model
has_l(which) == which \in {"tl", "bl", "left", "l"}

has_t(which) == which \in {"tl", "tr", "top", "t", "left", "right", "bottom"}

inner_corner(g, buf, width, height, which, level) ==
    IF ~level_ok(level + 1) THEN Res(buf, "IndexError")
    ELSE
    LET hgap == thickness(g, level + 1)
        vgap == thickness(g, level + 1)
        vthick == thickness(g, level) \div 2
        x == IF has_l(which) THEN <<0, width \div 2 - hgap + vthick + 1>>
             ELSE <<width \div 2 + hgap - vthick, width>>
        yd == IF has_t(which) THEN -1 ELSE 1
        y == IF has_t(which) THEN <<0, height \div 2 - vgap>>
             ELSE <<height \div 2 + vgap, height>>
        xd == IF has_l(which) THEN -1 ELSE 1
    IN  Then(draw_hline(g, buf, width, x[1], x[2], height \div 2 + (yd * vgap), level),
             LAMBDA b : draw_vline(g, b, width, y[1], y[2], width \div 2 + (xd * hgap), level))

\* ------------------------------------------------------- shades, quads

shade(buf, width, height, light, invert) ==
    LET square_sz == Max(1, width \div 12)
        number_of_rows == height \div square_sz
        number_of_cols == width \div square_sz
        lit(x, y) ==
            LET r == y \div square_sz
                c == x \div square_sz
                fill_even == r % 4 = 0
            IN  /\ r < number_of_rows
                /\ r % 2 = 0
                /\ c < number_of_cols
                /\ IF light THEN c % 4 = (IF fill_even THEN 0 ELSE 2)
                   ELSE (c % 2 = 0) = fill_even
        px(q) == lit(q % width, q \div width)
    IN  Res([q \in 0..(width * height - 1) |->
                IF invert THEN (IF px(q) THEN 0 ELSE 255)
                ELSE IF px(q) THEN 255 ELSE buf[q]], "ok")

quad(buf, width, height, x, y) ==
    LET num_cols == width \div 2
        left == x * num_cols
        right == IF x # 0 THEN width ELSE num_cols
        num_rows == height \div 2
        top == y * num_rows
        bottom == IF y # 0 THEN height ELSE num_rows
    IN  StoreLoop(buf, Range(top, bottom), Range(left, right),
                  LAMBDA r, c : r * width + c, 255)

\* ------------------------------------------------------- supersampling

\* total // (factor * factor) over the factor x factor block of src at (dest_x, dest_y);
\* src_width is 4 * dest_width whatever the factor
average_intensity_in_src(src, dest_width, factor, dest_x, dest_y) ==
    LET src_width == 4 * dest_width
        src_y == dest_y * factor
        src_x == dest_x * factor
        \* the sum over the pixels lo..hi of the block, counted row by row
        RECURSIVE Total(_, _)
        Total(lo, hi) ==
            IF lo = hi
            THEN src[src_width * (src_y + (lo \div factor)) + src_x + (lo % factor)]
            ELSE Total(lo, (lo + hi) \div 2) + Total((lo + hi) \div 2 + 1, hi)
    IN  Total(0, factor * factor - 1) \div (factor * factor)

\* variant: the average replaces the destination pixel
downsample_overwrite(src, dest, dest_width, dest_height, factor) ==
    [q \in DOMAIN dest |->
        IF q < dest_width * dest_height
        THEN average_intensity_in_src(src, dest_width, factor, q % dest_width, q \div dest_width)
        ELSE dest[q]]

downsample(src, dest, dest_width, dest_height, factor) ==
    [q \in DOMAIN dest |->
        IF q < dest_width * dest_height
        THEN Min(255, dest[q] + average_intensity_in_src(src, dest_width, factor,
                                                         q % dest_width, q \div dest_width))
        ELSE dest[q]]

supersample_factor == 4

\* the scratch buffer the wrapped routine F(ssbuf, w, h) draws on
ss_scratch(width, height, F(_, _, _)) ==
    (CHOOSE only \in {F(ssbuf, supersample_factor * width, supersample_factor * height)
        : ssbuf \in {ZeroBuf(supersample_factor * width * supersample_factor * height)}} : TRUE)

\* the wrapper of @supersampled(): F draws on a fresh buffer of 4 x the size, which is
\* then added into buf; an exception of F leaves buf as it was
supersampled(buf, width, height, F(_, _, _)) ==
    (CHOOSE only \in {IF r.err = "ok"
        THEN Res(downsample(r.buf, buf, width, height, supersample_factor), "ok")
        ELSE Res(buf, r.err)
        : r \in {ss_scratch(width, height, F)}} : TRUE)

\* ------------------------------------------------- unbounded naturals
\* A natural is the sequence of its digits in base BigBase, the lowest first, with no
\* leading zero digit; they carry the dyadic rationals of the Bezier search beyond the
\* integers of the checker.

BigBase == 2 ^ 14

\* the binary digits of one digit of base BigBase
BigBits == CHOOSE k \in 1..30 : 2 ^ k = BigBase

RECURSIVE BigOfInt(_)
BigOfInt(n) == IF n = 0 THEN <<>> ELSE <<n % BigBase>> \o BigOfInt(n \div BigBase)

RECURSIVE BigToInt(_)
BigToInt(a) == IF a = <<>> THEN 0 ELSE Head(a) + BigBase * BigToInt(Tail(a))

RECURSIVE BigNorm(_)
BigNorm(a) ==
    IF a # <<>> /\ a[Len(a)] = 0 THEN BigNorm(SubSeq(a, 1, Len(a) - 1)) ELSE a

RECURSIVE BigAddC(_, _, _)
BigAddC(a, b, c) ==
    IF a = <<>> /\ b = <<>> THEN (IF c = 0 THEN <<>> ELSE <<c>>)
    ELSE LET x == IF a = <<>> THEN 0 ELSE Head(a)
             y == IF b = <<>> THEN 0 ELSE Head(b)
             s == x + y + c
         IN  <<s % BigBase>> \o BigAddC(IF a = <<>> THEN a ELSE Tail(a),
                                         IF b = <<>> THEN b ELSE Tail(b),
                                         s \div BigBase)

BigAdd(a, b) == CHOOSE only \in {BigAddC(ab[1], ab[2], 0) : ab \in {<<a, b>>}} : TRUE

\* a - b for a >= b
RECURSIVE BigSubC(_, _, _)
BigSubC(a, b, c) ==
    IF a = <<>> THEN <<>>
    ELSE LET y == IF b = <<>> THEN 0 ELSE Head(b)
             d == Head(a) - y - c
         IN  <<d % BigBase>> \o BigSubC(Tail(a), IF b = <<>> THEN b ELSE Tail(b),
                                         IF d < 0 THEN 1 ELSE 0)

BigSub(a, b) ==
    CHOOSE only \in {BigNorm(BigSubC(ab[1], ab[2], 0)) : ab \in {<<a, b>>}} : TRUE

\* a * d + c for 0 <= d, c < BigBase
RECURSIVE BigMulSmallC(_, _, _)
BigMulSmallC(a, d, c) ==
    IF a = <<>> THEN (IF c = 0 THEN <<>> ELSE <<c>>)
    ELSE LET s == Head(a) * d + c
         IN  <<s % BigBase>> \o BigMulSmallC(Tail(a), d, s \div BigBase)

BigMulSmall(a, d) ==
    CHOOSE only \in {IF ad[2] = 0 THEN <<>> ELSE BigMulSmallC(ad[1], ad[2], 0)
                      : ad \in {<<a, d>>}} : TRUE

RECURSIVE BigMulC(_, _)
BigMulC(a, b) ==
    IF a = <<>> \/ b = <<>> THEN <<>>
    ELSE CHOOSE only \in {BigAdd(BigMulSmall(a, Head(b)),
                                  IF rest = <<>> THEN rest ELSE <<0>> \o rest)
                           : rest \in {BigMulC(a, Tail(b))}} : TRUE

BigMul(a, b) == CHOOSE only \in {BigMulC(ab[1], ab[2]) : ab \in {<<a, b>>}} : TRUE

\* -1, 0, 1 as a < b, a = b, a > b
RECURSIVE BigCmpFrom(_, _, _)
BigCmpFrom(a, b, i) ==
    IF i = 0 THEN 0
    ELSE IF a[i] < b[i] THEN -1
    ELSE IF a[i] > b[i] THEN 1
    ELSE BigCmpFrom(a, b, i - 1)

BigCmp(a, b) ==
    IF Len(a) < Len(b) THEN -1
    ELSE IF Len(a) > Len(b) THEN 1
    ELSE BigCmpFrom(a, b, Len(a))

RECURSIVE Pow2(_)
Pow2(m) == IF m = 0 THEN 1 ELSE 2 * Pow2(m - 1)

\* 2^m
BigPow2(m) == [i \in 1..(m \div BigBits) |-> 0] \o <<Pow2(m % BigBits)>>

\* ------------------------------------------------------------- Bezier
\* The curve parameter t is the rational k / d, with k and d Big naturals (d = 2^n in
\* the search of the D shape).  A curve coordinate is bezier_eq's <<p0, p1, p2, p3>>;
\* its value at t is BezierNum(p, k, d) / d^3.

\* tm1_3 * p0 + 3 * t * tm1 * (tm1 * p1 + t * p2) + t_3 * p3, times d^3
BezierNum(p, k, d) ==
    LET u == BigSub(d, k)
        uu == BigMul(u, u)
        kk == BigMul(k, k)
    IN  BigAdd(BigAdd(BigMulSmall(BigMul(uu, u), p[1]),
                      BigMulSmall(BigMul(BigMul(k, u),
                                         BigAdd(BigMulSmall(u, p[2]), BigMulSmall(k, p[3]))),
                                  3)),
               BigMulSmall(BigMul(kk, k), p[4]))

\* the same for t = k / d with k and d integers, where the value fits the integers
BezierInt(p, k, d) ==
    LET u == d - k
    IN  u * u * u * p[1] + 3 * k * u * (u * p[2] + k * p[3]) + k * k * k * p[4]

\* a non-negative rational num / den
Rat(num, den) == [num |-> num, den |-> den]

RatOfInt(n) == Rat(BigOfInt(n), <<1>>)

\* a <= y, a >= y, for an integer 0 <= y < BigBase
RatLeInt(a, y) == BigCmp(a.num, BigMulSmall(a.den, y)) <= 0

RatGeInt(a, y) == BigCmp(a.num, BigMulSmall(a.den, y)) >= 0

\* int(a)
RatFloor(a, bound) == CHOOSE v \in 0..bound : RatGeInt(a, v) /\ ~RatGeInt(a, v + 1)

\* cubic_bezier(start, end, c1, c2): the x and the y function
cubic_bezier(start, end, c1, c2) ==
    [x |-> <<start[1], c1[1], c2[1], end[1]>>, y |-> <<start[2], c1[2], c2[2], end[2]>>]

\* bezier_x(0.5) = (p0 + 3 * p1 + 3 * p2 + p3) / 8, as the pair of its numerator and 8
bezier_at_half(p) == <<p[1] + 3 * p[2] + 3 * p[3] + p[4], 8>>

\* variant: the search returns the first offset that overshoots
find_bezier_for_D_overshoot(width, height) ==
    LET RECURSIVE Search(_)
        Search(cx) ==
            LET b == cubic_bezier(<<0, 0>>, <<0, height - 1>>, <<cx, 0>>, <<cx, height - 1>>)
                h == bezier_at_half(b.x)
            IN  IF h[1] > (width - 1) * h[2] THEN cx ELSE Search(cx + 1)
    IN  Search(width - 1)

\* cx = last_cx = width - 1; while True: ... if bezier_x(0.5) > width - 1: return last_cx
find_bezier_for_D(width, height) ==
    LET RECURSIVE Search(_, _)
        Search(cx, last_cx) ==
            LET b == cubic_bezier(<<0, 0>>, <<0, height - 1>>, <<cx, 0>>, <<cx, height - 1>>)
                h == bezier_at_half(b.x)
            IN  IF h[1] > (width - 1) * h[2] THEN last_cx ELSE Search(cx + 1, cx)
    IN  Search(width - 1, width - 1)

\* --------------------------------------------------------------- regions

\* variant: the rows on the two bounds are left out
fill_region_strict(buf, width, height, xlimits) ==
    [q \in DOMAIN buf |->
        LET x == q % width
            y == q \div width
        IN  IF y < height /\ x < Len(xlimits)
            THEN (IF ~RatGeInt(xlimits[x + 1][1], y) /\ ~RatLeInt(xlimits[x + 1][2], y)
                  THEN 255 ELSE 0)
            ELSE buf[q]]

\* xlimits is a sequence of <<upper, lower>>, each a Rat; it has at most width entries
fill_region(buf, width, height, xlimits) ==
    (CHOOSE only \in {[q \in DOMAIN buf |->
            LET x == q % width
                y == q \div width
            IN  IF y < height /\ x < Len(xl)
                THEN (IF RatLeInt(xl[x + 1][1], y) /\ RatGeInt(xl[x + 1][2], y)
                      THEN 255 ELSE 0)
                ELSE buf[q]]
        : xl \in {xlimits}} : TRUE)

\* the y of line_equation(x1, y1, x2, y2) at x: m * x + c, which is not negative
\* for the lines drawn here
line_equation(x1, y1, x2, y2, x) ==
    LET num == (y2 - y1) * (x - x1) + y1 * (x2 - x1)
        den == x2 - x1
    IN  IF den > 0 THEN Rat(BigOfInt(num), BigOfInt(den))
        ELSE Rat(BigOfInt(-num), BigOfInt(-den))

triangle_body(buf, width, height, left) ==
    LET y2 == height \div 2
        x1 == IF left THEN 0 ELSE width - 1
        x2 == IF left THEN width - 1 ELSE 0
        xlimits == [k \in 1..width |->
                        <<line_equation(x1, 0, x2, y2, k - 1),
                          line_equation(x1, height - 1, x2, y2, k - 1)>>]
    IN  IF x1 = x2 THEN Res(buf, "ZeroDivisionError")
        ELSE Res(fill_region(buf, width, height, xlimits), "ok")

triangle(buf, width, height, left) ==
    supersampled(buf, width, height, LAMBDA b, w, h : triangle_body(b, w, h, left))

\* xlimits is unbound for a corner that is none of the four
corner_triangle_body(buf, width, height, corner_) ==
    LET diag(x) == IF corner_ \in {"top-right", "bottom-left"}
                   THEN line_equation(0, 0, width - 1, height - 1, x)
                   ELSE line_equation(width - 1, 0, 0, height - 1, x)
        xlimits == [k \in 1..width |->
                        IF corner_ \in {"top-right", "top-left"}
                        THEN <<RatOfInt(0), diag(k - 1)>>
                        ELSE <<diag(k - 1), RatOfInt(height - 1)>>]
    IN  IF width = 1 THEN Res(buf, "ZeroDivisionError")
        ELSE IF corner_ \notin {"top-right", "bottom-left", "top-left", "bottom-right"}
        THEN Res(buf, "UnboundLocalError")
        ELSE Res(fill_region(buf, width, height, xlimits), "ok")

corner_triangle(buf, width, height, corner_) ==
    supersampled(buf, width, height, LAMBDA b, w, h : corner_triangle_body(b, w, h, corner_))

\* ---------------------------------------------------------- thick lines

thick_line(buf, width, height, thickness_in_pixels, p1, p2) ==
    LET a == IF p1[1] > p2[1] THEN p2 ELSE p1
        b == IF p1[1] > p2[1] THEN p1 ELSE p2
        delta == thickness_in_pixels \div 2
        extra == thickness_in_pixels % 2
        y_p == [x \in a[1]..b[1] |->
                    RatFloor(line_equation(a[1], a[2], b[1], b[2], x), height)]
    IN  IF a[1] = b[1] THEN Res(buf, "ZeroDivisionError")
        ELSE (CHOOSE only \in {Res([q \in DOMAIN buf |->
                        LET x == q % width
                            y == q \div width
                        IN  IF /\ y < height
                               /\ x \in a[1]..b[1]
                               /\ y \in (yp[x] - delta)..(yp[x] + delta + extra - 1)
                            THEN 255 ELSE buf[q]], "ok")
                 : yp \in {y_p}} : TRUE)

cross_line_body(g, buf, width, height, left, level) ==
    LET p1 == IF left THEN <<0, 0>> ELSE <<width - 1, 0>>
        p2 == IF left THEN <<width - 1, height - 1>> ELSE <<0, height - 1>>
    IN  IF ~level_ok(level) THEN Res(buf, "IndexError")
        ELSE thick_line(buf, width, height, supersample_factor * thickness(g, level), p1, p2)

cross_line(g, buf, width, height, left, level) ==
    supersampled(buf, width, height, LAMBDA b, w, h : cross_line_body(g, b, w, h, left, level))

\* any which other than 'tl', 'bl', 'tr' is drawn as 'br'
half_cross_line_body(g, buf, width, height, which, level) ==
    LET my == (height - 1) \div 2
        p1 == IF which = "tl" THEN <<0, 0>>
              ELSE IF which = "bl" THEN <<width - 1, my>>
              ELSE IF which = "tr" THEN <<width - 1, 0>>
              ELSE <<0, my>>
        p2 == IF which = "tl" THEN <<width - 1, my>>
              ELSE IF which = "bl" THEN <<0, height - 1>>
              ELSE IF which = "tr" THEN <<0, my>>
              ELSE <<width - 1, height - 1>>
    IN  IF ~level_ok(level) THEN Res(buf, "IndexError")
        ELSE thick_line(buf, width, height, thickness(g, level) * supersample_factor, p1, p2)

half_cross_line(g, buf, width, height, which, level) ==
    supersampled(buf, width, height,
                 LAMBDA b, w, h : half_cross_line_body(g, b, w, h, which, level))

\* ------------------------------------------------------------ D shape

\* abs(q - x) < 0.1 for q = num / den
near_x(num, den, x) ==
    /\ BigCmp(BigMulSmall(num, 10), BigMulSmall(den, 10 * x + 1)) < 0
    /\ \/ x = 0
       \/ BigCmp(BigMulSmall(num, 10), BigMulSmall(den, 10 * x - 1)) > 0

\* the passes of the while loop of find_t_for_x that the model follows
MaxPasses == 32

\* The search keeps start_t = k / 2^n and increment = m / 2^n; t_limit is 0.5.
\* Its result is [k, n, err]: the t found, or err = "ValueError".  The loop is run
\* as a state s = [k, m, n, err], err = "run" while it goes on.
find_t_for_x(px, x, k0, n0) ==
    LET Den(n) == BigPow2(3 * n)
        Found(k, n) == [k |-> k, n |-> n, err |-> "ok"]
        Pass(s) ==
            (CHOOSE only \in {IF near_x(q, Den(s.n), x)
                THEN [s EXCEPT !.k = BigAdd(s.k, s.m), !.err = "ok"]
                ELSE IF BigCmp(q, BigMulSmall(Den(s.n), x)) > 0
                THEN \* increment /= 2; if increment < 1e-6: raise ValueError
                     IF BigCmp(BigMulSmall(BigMulSmall(s.m, 1000), 1000),
                               BigPow2(s.n + 1)) < 0
                     THEN [s EXCEPT !.err = "ValueError"]
                     ELSE [s EXCEPT !.k = BigMulSmall(s.k, 2), !.n = s.n + 1]
                ELSE \* start_t += increment; increment = t_limit - start_t
                     (CHOOSE only \in {(CHOOSE only \in {[s EXCEPT !.k = st, !.m = inc,
                                       !.err = IF inc = <<>> THEN "ok" ELSE "run"]
                                           : inc \in {BigSub(BigPow2(s.n - 1), st)}} : TRUE)
                         : st \in {BigAdd(s.k, s.m)}} : TRUE)
                : q \in {BezierNum(px, BigAdd(s.k, s.m), BigPow2(s.n))}} : TRUE)
        RECURSIVE Passes(_, _)
        Passes(s, count) ==
            IF s.err # "run" THEN s
            ELSE IF count = 1 THEN Pass(s)
            ELSE (CHOOSE only \in {Passes(s1, count - count \div 2)
                     : s1 \in {Passes(s, count \div 2)}} : TRUE)
        increment == BigSub(BigPow2(n0 - 1), k0)
    IN  IF near_x(BezierNum(px, k0, BigPow2(n0)), Den(n0), x) THEN Found(k0, n0)
        ELSE IF increment = <<>> THEN Found(k0, n0)
        ELSE (CHOOSE only \in {[k |-> s.k, n |-> s.n, err |-> s.err]
                 : s \in {Passes([k |-> k0, m |-> increment, n |-> n0, err |-> "run"],
                                 MaxPasses)}} : TRUE)

\* list(get_bezier_limits(bezier_x, bezier_y)): [limits, err].  The for loop is run as
\* a state c = [x, k, n, acc, err] with last_t = k / 2^n, err = "run" while it goes on.
get_bezier_limits(b) ==
    LET start_x == b.x[1]
        h == bezier_at_half(b.x)
        max_x == h[1] \div h[2]
        Column(c) ==
            (CHOOSE only \in {IF t.err # "ok" THEN [c EXCEPT !.err = t.err]
                ELSE
                (CHOOSE only \in {LET d3 == BigPow2(3 * t.n)
                        upper == ul[1]
                        lower == ul[2]
                        diff == IF BigCmp(upper, lower) >= 0 THEN BigSub(upper, lower)
                                ELSE BigSub(lower, upper)
                    IN  IF BigCmp(diff, BigMulSmall(d3, 2)) <= 0
                        THEN [c EXCEPT !.err = "ok"]
                        ELSE [x |-> c.x + 1, k |-> t.k, n |-> t.n, err |-> "run",
                              acc |-> Append(c.acc, <<Rat(upper, d3), Rat(lower, d3)>>)]
                    : ul \in {<<BezierNum(b.y, t.k, BigPow2(t.n)),
                      BezierNum(b.y, BigSub(BigPow2(t.n), t.k), BigPow2(t.n))>>}} : TRUE)
                : t \in {IF c.x > start_x THEN find_t_for_x(b.x, c.x, c.k, c.n)
                ELSE [k |-> c.k, n |-> c.n, err |-> "ok"]}} : TRUE)
        RECURSIVE Columns(_, _)
        Columns(c, count) ==
            IF c.err # "run" \/ count < 1 THEN c
            ELSE IF count = 1 THEN Column(c)
            ELSE (CHOOSE only \in {Columns(c1, count - count \div 2)
                     : c1 \in {Columns(c, count \div 2)}} : TRUE)
    IN  (CHOOSE only \in {[limits |-> c.acc, err |-> IF c.err = "run" THEN "ok" ELSE c.err]
            : c \in {Columns([x |-> start_x, k |-> <<>>, n |-> 1, acc |-> <<>>, err |-> "run"],
                    max_x - start_x + 1)}} : TRUE)

\* variant: the copy keeps the columns in place
mirror_copy_straight(buf, mbuf, width, height) ==
    [q \in DOMAIN buf |-> IF q < width * height THEN mbuf[q] ELSE buf[q]]

\* buf[offset + width - 1 - src_x] = mbuf[offset + src_x]
mirror_copy(buf, mbuf, width, height) ==
    [q \in DOMAIN buf |->
        IF q < width * height
        THEN mbuf[(q \div width) * width + (width - 1 - (q % width))]
        ELSE buf[q]]

D_body(buf, width, height, left) ==
    LET c1x == find_bezier_for_D(width, height)
        Fill(dest, limits) == fill_region(dest, width, height, limits)
    IN  (CHOOSE only \in {
            (CHOOSE only \in {IF lim.err # "ok" THEN Res(buf, lim.err)
                ELSE IF left THEN Res(Fill(buf, lim.limits), "ok")
                ELSE (CHOOSE only \in {Res(mirror_copy(buf, mbuf, width, height), "ok")
                         : mbuf \in {Fill(ZeroBuf(width * height), lim.limits)}} : TRUE)
                : lim \in {get_bezier_limits(b)}} : TRUE)
            : b \in {cubic_bezier(<<0, 0>>, <<0, height - 1>>,
                                  <<c1x, 0>>, <<c1x, height - 1>>)}} : TRUE)

D(buf, width, height, left) ==
    supersampled(buf, width, height, LAMBDA b, w, h : D_body(b, w, h, left))

\* ------------------------------------------------------ rounded corners

\* b is cubic_bezier's pair of curves; every pixel of the thickness-sized square at
\* each sampled point becomes min(255, old + 255) = 255
draw_parametrized_curve(buf, width, height, thickness_in_pixels, b) ==
    LET num_samples == height * 4
        d3 == num_samples * num_samples * num_samples
        delta == thickness_in_pixels \div 2
        extra == thickness_in_pixels % 2
        pt(i) == <<BezierInt(b.x, i, num_samples) \div d3,
                   BezierInt(b.y, i, num_samples) \div d3>>
    IN  (CHOOSE only \in {Res([q \in DOMAIN buf |->
                    IF /\ q < width * height
                       /\ \E p_ \in seen :
                            /\ (q % width) \in (p_[1] - delta)..(p_[1] + delta + extra - 1)
                            /\ (q \div width) \in (p_[2] - delta)..(p_[2] + delta + extra - 1)
                    THEN 255 ELSE buf[q]], "ok")
            : seen \in {{pt(i) : i \in 0..num_samples}}} : TRUE)

\* U256D, U256E, U2570, U256F: the arcs down-right, down-left, up-right, up-left;
\* start is unbound for any other which
rounded_corner_body(g, buf, width, height, level, which) ==
    LET hw == width \div 2
        hh == height \div 2
        b == IF which = U256D
             THEN cubic_bezier(<<hw, height - 1>>, <<width - 1, hh>>,
                               <<hw, (3 * height) \div 4>>, <<hw, hh + 1>>)
             ELSE IF which = U256E
             THEN cubic_bezier(<<0, hh>>, <<hw, height - 1>>,
                               <<hw, hh + 1>>, <<hw, (3 * height) \div 4>>)
             ELSE IF which = U2570
             THEN cubic_bezier(<<hw, 0>>, <<width - 1, hh>>,
                               <<hw, height \div 4>>, <<hw - 1, hh - 1>>)
             ELSE cubic_bezier(<<0, hh>>, <<hw, 0>>,
                               <<hw - 1, hh - 1>>, <<hw, height \div 4>>)
    IN  IF ~level_ok(level) THEN Res(buf, "IndexError")
        ELSE IF which \notin {U256D, U256E, U2570, U256F}
        THEN Res(buf, "UnboundLocalError")
        ELSE draw_parametrized_curve(buf, width, height,
                                     thickness(g, level) * supersample_factor, b)

rounded_corner(g, buf, width, height, level, which) ==
    supersampled(buf, width, height,
                 LAMBDA b, w, h : rounded_corner_body(g, b, w, h, level, which))

\* ------------------------------------------------------ dispatch table
\* A drawing step is a routine bound to its arguments, p(func, ...): a record of the
\* routine's name f and its arguments, the defaults of the def filled in.  A character
\* selector is the field ch, a selector string the field which.

Apply(g, s, b, w, h) ==
    CASE s.f = "hline" -> hline(g, b, w, h, s.level)
      [] s.f = "vline" -> vline(g, b, w, h, s.level)
      [] s.f = "hholes" -> hholes(g, b, w, h, s.level, s.num)
      [] s.f = "vholes" -> vholes(g, b, w, h, s.level, s.num)
      [] s.f = "add_hholes" -> add_hholes(g, b, w, h, s.level, s.num)
      [] s.f = "add_vholes" -> add_vholes(g, b, w, h, s.level, s.num)
      [] s.f = "half_hline" -> half_hline(g, b, w, h, s.level, s.which, s.extend_by)
      [] s.f = "half_vline" -> half_vline(g, b, w, h, s.level, s.which, s.extend_by)
      [] s.f = "corner" -> corner(g, b, w, h, s.hlevel, s.vlevel, s.ch)
      [] s.f = "vert_t" -> vert_t(g, b, w, h, s.a, s.b, s.c, s.ch)
      [] s.f = "horz_t" -> horz_t(g, b, w, h, s.a, s.b, s.c, s.ch)
      [] s.f = "cross" -> cross(g, b, w, h, s.a, s.b, s.c, s.d)
      [] s.f = "triangle" -> triangle(b, w, h, s.left)
      [] s.f = "corner_triangle" -> corner_triangle(b, w, h, s.corner)
      [] s.f = "cross_line" -> cross_line(g, b, w, h, s.left, s.level)
      [] s.f = "half_cross_line" -> half_cross_line(g, b, w, h, s.which, s.level)
      [] s.f = "D" -> D(b, w, h, s.left)
      [] s.f = "rounded_corner" -> rounded_corner(g, b, w, h, s.level, s.ch)
      [] s.f = "half_dhline" -> half_dhline(g, b, w, h, s.level, s.which, s.only)
      [] s.f = "half_dvline" -> half_dvline(g, b, w, h, s.level, s.which, s.only)
      [] s.f = "dhline" -> dhline(g, b, w, h, s.only, s.level)
      [] s.f = "dvline" -> dvline(g, b, w, h, s.only, s.level)
      [] s.f = "dvcorner" -> dvcorner(g, b, w, h, s.level, s.ch)
      [] s.f = "dhcorner" -> dhcorner(g, b, w, h, s.level, s.ch)
      [] s.f = "dcorner" -> dcorner(g, b, w, h, s.level, s.ch)
      [] s.f = "dpip" -> dpip(g, b, w, h, s.level, s.ch)
      [] s.f = "inner_corner" -> inner_corner(g, b, w, h, s.which, s.level)
      [] s.f = "vblock" -> vblock(b, w, h, s.frac8, s.gravity)
      [] s.f = "hblock" -> hblock(b, w, h, s.frac8, s.gravity)
      [] s.f = "shade" -> shade(b, w, h, s.light, s.invert)
      [] s.f = "quad" -> quad(b, w, h, s.x, s.y)

\* the entries written out in the dict display
box_chars_literal ==
       9472 :> <<[f |-> "hline", level |-> 1]>>
    @@ 9473 :> <<[f |-> "hline", level |-> 3]>>
    @@ 9474 :> <<[f |-> "vline", level |-> 1]>>
    @@ 9475 :> <<[f |-> "vline", level |-> 3]>>
    @@ 9548 :> <<[f |-> "hholes", level |-> 1, num |-> 1]>>
    @@ 9549 :> <<[f |-> "hholes", level |-> 3, num |-> 1]>>
    @@ 9476 :> <<[f |-> "hholes", level |-> 1, num |-> 2]>>
    @@ 9477 :> <<[f |-> "hholes", level |-> 3, num |-> 2]>>
    @@ 9480 :> <<[f |-> "hholes", level |-> 1, num |-> 3]>>
    @@ 9481 :> <<[f |-> "hholes", level |-> 3, num |-> 3]>>
    @@ 9550 :> <<[f |-> "vholes", level |-> 1, num |-> 1]>>
    @@ 9551 :> <<[f |-> "vholes", level |-> 3, num |-> 1]>>
    @@ 9478 :> <<[f |-> "vholes", level |-> 1, num |-> 2]>>
    @@ 9479 :> <<[f |-> "vholes", level |-> 3, num |-> 2]>>
    @@ 9482 :> <<[f |-> "vholes", level |-> 1, num |-> 3]>>
    @@ 9483 :> <<[f |-> "vholes", level |-> 3, num |-> 3]>>
    @@ 9588 :> <<[f |-> "half_hline", level |-> 1, which |-> "left", extend_by |-> 0]>>
    @@ 9589 :> <<[f |-> "half_vline", level |-> 1, which |-> "top", extend_by |-> 0]>>
    @@ 9590 :> <<[f |-> "half_hline", level |-> 1, which |-> "right", extend_by |-> 0]>>
    @@ 9591 :> <<[f |-> "half_vline", level |-> 1, which |-> "bottom", extend_by |-> 0]>>
    @@ 9592 :> <<[f |-> "half_hline", level |-> 3, which |-> "left", extend_by |-> 0]>>
    @@ 9593 :> <<[f |-> "half_vline", level |-> 3, which |-> "top", extend_by |-> 0]>>
    @@ 9594 :> <<[f |-> "half_hline", level |-> 3, which |-> "right", extend_by |-> 0]>>
    @@ 9595 :> <<[f |-> "half_vline", level |-> 3, which |-> "bottom", extend_by |-> 0]>>
    @@ 9596 :> <<[f |-> "half_hline", level |-> 1, which |-> "left", extend_by |-> 0],
                [f |-> "half_hline", level |-> 3, which |-> "right", extend_by |-> 0]>>
    @@ 9597 :> <<[f |-> "half_vline", level |-> 1, which |-> "top", extend_by |-> 0],
                [f |-> "half_vline", level |-> 3, which |-> "bottom", extend_by |-> 0]>>
    @@ 9598 :> <<[f |-> "half_hline", level |-> 3, which |-> "left", extend_by |-> 0],
                [f |-> "half_hline", level |-> 1, which |-> "right", extend_by |-> 0]>>
    @@ 9599 :> <<[f |-> "half_vline", level |-> 3, which |-> "top", extend_by |-> 0],
                [f |-> "half_vline", level |-> 1, which |-> "bottom", extend_by |-> 0]>>
    @@ 57520 :> <<[f |-> "triangle", left |-> TRUE]>>
    @@ 57522 :> <<[f |-> "triangle", left |-> FALSE]>>
    @@ 57524 :> <<[f |-> "D", left |-> TRUE]>>
    @@ 57526 :> <<[f |-> "D", left |-> FALSE]>>
    @@ 57521 :> <<[f |-> "half_cross_line", which |-> "tl", level |-> 1],
                [f |-> "half_cross_line", which |-> "bl", level |-> 1]>>
    @@ 57523 :> <<[f |-> "half_cross_line", which |-> "tr", level |-> 1],
                [f |-> "half_cross_line", which |-> "br", level |-> 1]>>
    @@ 57528 :> <<[f |-> "corner_triangle", corner |-> "bottom-left"]>>
    @@ 57530 :> <<[f |-> "corner_triangle", corner |-> "bottom-right"]>>
    @@ 57532 :> <<[f |-> "corner_triangle", corner |-> "top-left"]>>
    @@ 57534 :> <<[f |-> "corner_triangle", corner |-> "top-right"]>>
    @@ 9552 :> <<[f |-> "dhline", only |-> "None", level |-> 1]>>
    @@ 9553 :> <<[f |-> "dvline", only |-> "None", level |-> 1]>>
    @@ 9566 :> <<[f |-> "vline", level |-> 1],
                [f |-> "half_dhline", level |-> 1, which |-> "right", only |-> "None"]>>
    @@ 9569 :> <<[f |-> "vline", level |-> 1],
                [f |-> "half_dhline", level |-> 1, which |-> "left", only |-> "None"]>>
    @@ 9573 :> <<[f |-> "hline", level |-> 1],
                [f |-> "half_dvline", level |-> 1, which |-> "bottom", only |-> "None"]>>
    @@ 9576 :> <<[f |-> "hline", level |-> 1],
                [f |-> "half_dvline", level |-> 1, which |-> "top", only |-> "None"]>>
    @@ 9578 :> <<[f |-> "vline", level |-> 1],
                [f |-> "half_dhline", level |-> 1, which |-> "left", only |-> "None"],
                [f |-> "half_dhline", level |-> 1, which |-> "right", only |-> "None"]>>
    @@ 9579 :> <<[f |-> "hline", level |-> 1],
                [f |-> "half_dvline", level |-> 1, which |-> "top", only |-> "None"],
                [f |-> "half_dvline", level |-> 1, which |-> "bottom", only |-> "None"]>>
    @@ 9580 :> <<[f |-> "inner_corner", which |-> "tl", level |-> 1],
                [f |-> "inner_corner", which |-> "tr", level |-> 1],
                [f |-> "inner_corner", which |-> "bl", level |-> 1],
                [f |-> "inner_corner", which |-> "br", level |-> 1]>>
    @@ 9568 :> <<[f |-> "inner_corner", which |-> "tr", level |-> 1],
                [f |-> "inner_corner", which |-> "br", level |-> 1],
                [f |-> "dvline", only |-> "left", level |-> 1]>>
    @@ 9571 :> <<[f |-> "inner_corner", which |-> "tl", level |-> 1],
                [f |-> "inner_corner", which |-> "bl", level |-> 1],
                [f |-> "dvline", only |-> "right", level |-> 1]>>
    @@ 9574 :> <<[f |-> "inner_corner", which |-> "bl", level |-> 1],
                [f |-> "inner_corner", which |-> "br", level |-> 1],
                [f |-> "dhline", only |-> "top", level |-> 1]>>
    @@ 9577 :> <<[f |-> "inner_corner", which |-> "tl", level |-> 1],
                [f |-> "inner_corner", which |-> "tr", level |-> 1],
                [f |-> "dhline", only |-> "bottom", level |-> 1]>>
    @@ 9585 :> <<[f |-> "cross_line", left |-> FALSE, level |-> 1]>>
    @@ 9586 :> <<[f |-> "cross_line", left |-> TRUE, level |-> 1]>>
    @@ 9587 :> <<[f |-> "cross_line", left |-> TRUE, level |-> 1],
                [f |-> "cross_line", left |-> FALSE, level |-> 1]>>
    @@ 9600 :> <<[f |-> "vblock", frac8 |-> 4, gravity |-> "top"]>>
    @@ 9601 :> <<[f |-> "vblock", frac8 |-> 1, gravity |-> "bottom"]>>
    @@ 9602 :> <<[f |-> "vblock", frac8 |-> 2, gravity |-> "bottom"]>>
    @@ 9603 :> <<[f |-> "vblock", frac8 |-> 3, gravity |-> "bottom"]>>
    @@ 9604 :> <<[f |-> "vblock", frac8 |-> 4, gravity |-> "bottom"]>>
    @@ 9605 :> <<[f |-> "vblock", frac8 |-> 5, gravity |-> "bottom"]>>
    @@ 9606 :> <<[f |-> "vblock", frac8 |-> 6, gravity |-> "bottom"]>>
    @@ 9607 :> <<[f |-> "vblock", frac8 |-> 7, gravity |-> "bottom"]>>
    @@ 9608 :> <<[f |-> "vblock", frac8 |-> 8, gravity |-> "bottom"]>>
    @@ 9609 :> <<[f |-> "hblock", frac8 |-> 7, gravity |-> "left"]>>
    @@ 9610 :> <<[f |-> "hblock", frac8 |-> 6, gravity |-> "left"]>>
    @@ 9611 :> <<[f |-> "hblock", frac8 |-> 5, gravity |-> "left"]>>
    @@ 9612 :> <<[f |-> "hblock", frac8 |-> 4, gravity |-> "left"]>>
    @@ 9613 :> <<[f |-> "hblock", frac8 |-> 3, gravity |-> "left"]>>
    @@ 9614 :> <<[f |-> "hblock", frac8 |-> 2, gravity |-> "left"]>>
    @@ 9615 :> <<[f |-> "hblock", frac8 |-> 1, gravity |-> "left"]>>
    @@ 9616 :> <<[f |-> "hblock", frac8 |-> 4, gravity |-> "right"]>>
    @@ 9617 :> <<[f |-> "shade", light |-> TRUE, invert |-> FALSE]>>
    @@ 9618 :> <<[f |-> "shade", light |-> FALSE, invert |-> FALSE]>>
    @@ 9619 :> <<[f |-> "shade", light |-> FALSE, invert |-> TRUE]>>
    @@ 9620 :> <<[f |-> "vblock", frac8 |-> 1, gravity |-> "top"]>>
    @@ 9621 :> <<[f |-> "hblock", frac8 |-> 1, gravity |-> "right"]>>
    @@ 9622 :> <<[f |-> "quad", x |-> 0, y |-> 1]>>
    @@ 9623 :> <<[f |-> "quad", x |-> 1, y |-> 1]>>
    @@ 9624 :> <<[f |-> "quad", x |-> 0, y |-> 0]>>
    @@ 9625 :> <<[f |-> "quad", x |-> 0, y |-> 0], [f |-> "quad", x |-> 0, y |-> 1],
                [f |-> "quad", x |-> 1, y |-> 1]>>
    @@ 9626 :> <<[f |-> "quad", x |-> 0, y |-> 0], [f |-> "quad", x |-> 1, y |-> 1]>>
    @@ 9627 :> <<[f |-> "quad", x |-> 0, y |-> 0], [f |-> "quad", x |-> 1, y |-> 0],
                [f |-> "quad", x |-> 0, y |-> 1]>>
    @@ 9628 :> <<[f |-> "quad", x |-> 0, y |-> 0], [f |-> "quad", x |-> 1, y |-> 1],
                [f |-> "quad", x |-> 1, y |-> 0]>>
    @@ 9629 :> <<[f |-> "quad", x |-> 1, y |-> 0]>>
    @@ 9630 :> <<[f |-> "quad", x |-> 1, y |-> 0], [f |-> "quad", x |-> 0, y |-> 1]>>
    @@ 9631 :> <<[f |-> "quad", x |-> 1, y |-> 0], [f |-> "quad", x |-> 0, y |-> 1],
                [f |-> "quad", x |-> 1, y |-> 1]>>

\* t, f = 1, 3
level_t == 1

level_f == 3

\* the member of starts that the character c of a family of n-character runs belongs to
FamilyStart(starts, n, c) == CHOOSE s \in starts : c \in s..(s + n - 1)

Family(starts, n, Entry(_, _)) ==
    [c \in UNION {s..(s + n - 1) : s \in starts} |->
        LET s == FamilyStart(starts, n, c) IN Entry(s, c - s)]

corner_levels ==
    <<<<level_t, level_t>>, <<level_f, level_t>>, <<level_t, level_f>>, <<level_f, level_f>>>>

box_chars_corners ==
    Family({U250C, U2510, U2514, U2518}, 4,
           LAMBDA s, i : <<[f |-> "corner", ch |-> s, hlevel |-> corner_levels[i + 1][1],
                            vlevel |-> corner_levels[i + 1][2]]>>)

box_chars_rounded ==
    [c \in {U256D, U256E, U2570, U256F} |-> <<[f |-> "rounded_corner", level |-> 1, ch |-> c]>>]

cross_levels ==
    LET t == level_t
        f == level_f
    IN  <<<<t, t, t, t>>, <<f, t, t, t>>, <<t, f, t, t>>, <<f, f, t, t>>, <<t, t, f, t>>,
          <<t, t, t, f>>, <<t, t, f, f>>, <<f, t, f, t>>, <<t, f, f, t>>, <<f, t, t, f>>,
          <<t, f, t, f>>, <<f, f, f, t>>, <<f, f, t, f>>, <<f, t, f, f>>, <<t, f, f, f>>,
          <<f, f, f, f>>>>

box_chars_crosses ==
    Family({U253C}, 16,
           LAMBDA s, i : <<[f |-> "cross", a |-> cross_levels[i + 1][1],
                            b |-> cross_levels[i + 1][2], c |-> cross_levels[i + 1][3],
                            d |-> cross_levels[i + 1][4]]>>)

vert_t_levels ==
    LET t == level_t
        f == level_f
    IN  <<<<t, t, t>>, <<t, f, t>>, <<f, t, t>>, <<t, t, f>>, <<f, t, f>>, <<f, f, t>>,
          <<t, f, f>>, <<f, f, f>>>>

horz_t_levels ==
    LET t == level_t
        f == level_f
    IN  <<<<t, t, t>>, <<f, t, t>>, <<t, f, t>>, <<f, f, t>>, <<t, t, f>>, <<f, t, f>>,
          <<t, f, f>>, <<f, f, f>>>>

box_chars_tees ==
    Family({U252C, U2534}, 8,
           LAMBDA s, i : <<[f |-> "horz_t", ch |-> s, a |-> horz_t_levels[i + 1][1],
                            b |-> horz_t_levels[i + 1][2], c |-> horz_t_levels[i + 1][3]]>>)
    @@ Family({U251C, U2524}, 8,
           LAMBDA s, i : <<[f |-> "vert_t", ch |-> s, a |-> vert_t_levels[i + 1][1],
                            b |-> vert_t_levels[i + 1][2], c |-> vert_t_levels[i + 1][3]]>>)

box_chars_double ==
    [c \in {U255F, U2562, U2564, U2567} |-> <<[f |-> "dpip", level |-> 1, ch |-> c]>>]
    @@ [c \in {U2554, U2557, U255A, U255D} |-> <<[f |-> "dcorner", level |-> 1, ch |-> c]>>]
    @@ [c \in {U2553, U2556, U2559, U255C} |-> <<[f |-> "dhcorner", level |-> 1, ch |-> c]>>]
    @@ [c \in {U2552, U2555, U2558, U255B} |-> <<[f |-> "dvcorner", level |-> 1, ch |-> c]>>]

\* the table once the module is loaded: a later assignment replaces an earlier entry
box_chars ==
    box_chars_double @@ box_chars_tees @@ box_chars_crosses @@ box_chars_rounded
    @@ box_chars_corners @@ box_chars_literal

\* for func in recipe: func(buf, width, height); an exception ends the loop
RECURSIVE run_steps(_, _, _, _, _)
run_steps(g, steps, r, w, h) ==
    IF steps = <<>> \/ r.err # "ok" THEN r
    ELSE (CHOOSE only \in {run_steps(g, Tail(steps), r1, w, h)
             : r1 \in {Apply(g, Head(steps), r.buf, w, h)}} : TRUE)

\* variant: the right side of the missing glyph is not drawn
render_missing_glyph_open(g, b, w, h) ==
    LET hgap == thickness(g, 0) + 1
        vgap == thickness(g, 0) + 1
    IN  Then(Then(draw_hline(g, b, w, hgap, w - hgap + 1, vgap, 0),
                  LAMBDA b1 : draw_hline(g, b1, w, hgap, w - hgap + 1, h - vgap, 0)),
             LAMBDA b2 : draw_vline(g, b2, w, vgap, h - vgap + 1, hgap, 0))

\* reads the _dpi and the scale that are current when it is called
render_missing_glyph_draw(g, b, w, h) ==
    LET hgap == thickness(g, 0) + 1
        vgap == thickness(g, 0) + 1
    IN  Then(Then(Then(draw_hline(g, b, w, hgap, w - hgap + 1, vgap, 0),
                       LAMBDA b1 : draw_hline(g, b1, w, hgap, w - hgap + 1, h - vgap, 0)),
                  LAMBDA b2 : draw_vline(g, b2, w, vgap, h - vgap + 1, hgap, 0)),
             LAMBDA b3 : draw_vline(g, b3, w, vgap, h - vgap + 1, w - hgap, 0))

\* variant: a character without a recipe is drawn as the missing glyph
render_steps_fallback(g, ch, b, w, h) ==
    IF ch \notin DOMAIN box_chars THEN render_missing_glyph_draw(g, b, w, h)
    ELSE run_steps(g, box_chars[ch], Res(b, "ok"), w, h)

\* the body of render_box_char once _dpi is set: g.dpi is the _dpi its steps read
render_steps(g, ch, b, w, h) ==
    IF ch \notin DOMAIN box_chars THEN Res(b, "KeyError")
    ELSE run_steps(g, box_chars[ch], Res(b, "ok"), w, h)

\* ------------------------------------------------------------------ state
\* _dpi, scale   the module's globals
\* buf, width, height   the caller's buffer and its cell size
\* old           the buffer as it was when the last call began
\* call          the last call made on the buffer, err its outcome ("ok" or the
\*               exception it raised)
\* phase         "idle": the buffer is as the caller allocated it; "done": a call has
\*               been made on it
\* ref           a result the caller has kept of an earlier render_box_char into a zero
\*               buffer; ref.mid tells that a render at another dpi has happened since
\* threads       the render_box_char calls that run concurrently, each on its own buffer

VARIABLES _dpi, scale, buf, width, height, old, call, err, phase, ref, threads

vars == <<_dpi, scale, buf, width, height, old, call, err, phase, ref, threads>>

\* the context a routine reads its globals from
Globals == [dpi |-> _dpi, scale |-> scale]

NoStep == [f |-> "none"]

\* ret is the value a call has returned and was the globals it has found, where the
\* model keeps them
NoCall == [op |-> "none", ch |-> -1, dpi |-> 0, step |-> NoStep, ret |-> -1,
           was |-> [dpi |-> 0, scale |-> <<>>]]

NoRef == [ch |-> -1, dpi |-> 0, scale |-> <<>>, width |-> 0, height |-> 0,
          buf |-> ZeroBuf(0), err |-> "ok", mid |-> FALSE]

\* cell sizes, resolutions and scale tables (in thousandths) of the render calls
Sizes == {<<8, 8>>, <<16, 16>>}

DPIs == {72, 96, 144}

\* the default table, one with heavier lines, and one as a configuration can give it:
\* level 0 a full point, the levels not in increasing order, level 3 zero
Scales == {default_scale, <<1, 1000, 2000, 3000>>, <<1000, 2000, 1500, 0>>}

\* the characters rendered: the light cross, the upper half block, the light and the
\* double horizontal line, a dashed line, the light down-right corner; and two
\* characters without a recipe, LATIN CAPITAL LETTER A and BLACK SQUARE
Chars == {U253C, 9600, 9472, 9552, 9476, U250C, 65, 9632}

\* what a buffer holds when the caller hands it over: zeros, or earlier content
Patterns == {"zero", "mixed"}

PatternBuf(pat, w, h) ==
    IF pat = "zero" THEN ZeroBuf(w * h)
    ELSE [i \in 0..(w * h - 1) |-> <<0, 100, 200, 255>>[((i + (i \div w)) % 4) + 1]]

IsZero(b) == \A i \in DOMAIN b : b[i] = 0

\* buf = bytearray(width * height), or a buffer that already has content
alloc(w, h, pat) ==
    /\ width' = w
    /\ height' = h
    /\ buf' = PatternBuf(pat, w, h)
    /\ old' = buf'
    /\ call' = NoCall
    /\ err' = "ok"
    /\ phase' = "idle"
    /\ UNCHANGED <<_dpi, scale, ref, threads>>

\* variant: the assignment only ever lowers _dpi
render_dpi_lower(cur, dpi) == Min(cur, dpi)

\* the value of _dpi once render_box_char has run its assignment _dpi = dpi
render_dpi(cur, dpi) == dpi

render_box_char(ch, dpi) ==
    /\ phase = "idle"
    /\ LET d == render_dpi(_dpi, dpi)
           r == render_steps([dpi |-> d, scale |-> scale], ch, buf, width, height)
       IN  /\ _dpi' = d
           /\ buf' = r.buf
           /\ err' = r.err
    /\ old' = buf
    /\ call' = [NoCall EXCEPT !.op = "render_box_char", !.ch = ch, !.dpi = dpi,
                              !.was = Globals]
    /\ phase' = "done"
    /\ ref' = IF ref # NoRef /\ dpi # ref.dpi THEN [ref EXCEPT !.mid = TRUE] ELSE ref
    /\ UNCHANGED <<scale, width, height, threads>>

render_missing_glyph ==
    /\ phase = "idle"
    /\ LET r == render_missing_glyph_draw(Globals, buf, width, height)
       IN  /\ buf' = r.buf
           /\ err' = r.err
    /\ old' = buf
    /\ call' = [NoCall EXCEPT !.op = "render_missing_glyph"]
    /\ phase' = "done"
    /\ UNCHANGED <<_dpi, scale, width, height, ref, threads>>

\* scale = tuple(new_scale); a result kept under the old table is dropped
set_scale(new_scale) ==
    /\ phase = "idle"
    /\ new_scale # scale
    /\ scale' = new_scale
    /\ ref' = NoRef
    /\ UNCHANGED <<_dpi, buf, width, height, old, call, err, phase, threads>>

\* the caller keeps the result of a render into a zero buffer, to compare with later
keep_result ==
    /\ phase = "done"
    /\ call.op = "render_box_char"
    /\ IsZero(old)
    /\ ref' = [ch |-> call.ch, dpi |-> call.dpi, scale |-> scale, width |-> width,
               height |-> height, buf |-> buf, err |-> err, mid |-> FALSE]
    /\ ref' # ref
    /\ UNCHANGED <<_dpi, scale, buf, width, height, old, call, err, phase, threads>>

Init ==
    /\ _dpi = 96
    /\ scale = default_scale
    /\ width = 8
    /\ height = 8
    /\ buf = ZeroBuf(64)
    /\ old = buf
    /\ call = NoCall
    /\ err = "ok"
    /\ phase = "idle"
    /\ ref = NoRef
    /\ threads = <<>>

Next ==
    \/ \E sz \in Sizes, pat \in Patterns : alloc(sz[1], sz[2], pat)
    \/ \E ch \in Chars, dpi \in DPIs : render_box_char(ch, dpi)
    \/ render_missing_glyph
    \/ \E sc \in Scales : set_scale(sc)
    \/ keep_result

Spec == Init /\ [][Next]_vars

\* ------------------------------------------------------ routine calls
\* The drawing routines called one at a time on an allocated buffer, as the recipes
\* and the tests call them, with the globals as an earlier render has left them.

\* the cells whose supersampled buffers (4 x the size) the exact arithmetic of the
\* model follows the floating point of the source on
SmallSizes == {<<2, 2>>, <<2, 4>>, <<4, 2>>, <<4, 4>>}

RoutineSizes ==
    SmallSizes \cup {<<6, 8>>, <<8, 6>>, <<8, 8>>, <<12, 8>>, <<16, 8>>, <<16, 16>>, <<24, 8>>,
                     <<32, 8>>}

Levels == 0..3

Nums == 1..3

\* the routines under @supersampled()
SsRoutines ==
    {"triangle", "corner_triangle", "cross_line", "half_cross_line", "D", "rounded_corner"}

\* the values each selector parameter is compared against, or is called with
SideH == {"left", "right"}

SideV == {"top", "bottom"}

Corners == {"tl", "tr", "bl", "br"}

TriangleCorners == {"top-left", "top-right", "bottom-left", "bottom-right"}

OnlyH == {"None", "top", "bottom"}

OnlyV == {"None", "left", "right"}

CornerChars == {U250C, U2510, U2514, U2518}

RoundedChars == {U256D, U256E, U2570, U256F}

\* the selector a step carries is one of those its routine knows
SelectorOK(s) ==
    CASE s.f \in {"half_hline"} -> s.which \in SideH
      [] s.f \in {"half_vline"} -> s.which \in SideV
      [] s.f = "half_dhline" -> s.which \in SideH /\ s.only \in OnlyH
      [] s.f = "half_dvline" -> s.which \in SideV /\ s.only \in OnlyV
      [] s.f = "dhline" -> s.only \in OnlyH
      [] s.f = "dvline" -> s.only \in OnlyV
      [] s.f \in {"half_cross_line", "inner_corner"} -> s.which \in Corners
      [] s.f = "corner_triangle" -> s.corner \in TriangleCorners
      [] s.f = "corner" -> s.ch \in CornerChars
      [] s.f = "rounded_corner" -> s.ch \in RoundedChars
      [] s.f = "vert_t" -> s.ch \in {U251C, U2524}
      [] s.f = "horz_t" -> s.ch \in {U252C, U2534}
      [] s.f = "dvcorner" -> s.ch \in {U2552, U2555, U2558, U255B}
      [] s.f = "dhcorner" -> s.ch \in {U2553, U2556, U2559, U255C}
      [] s.f = "dcorner" -> s.ch \in {U2554, U2557, U255A, U255D}
      [] s.f = "dpip" -> s.ch \in {U255F, U2562, U2564, U2567}
      [] s.f = "vblock" -> s.gravity \in SideV
      [] s.f = "hblock" -> s.gravity \in SideH
      [] OTHER -> TRUE

\* the calls made: every level and hole count, every selector a routine knows, and
\* for each selector parameter values that the routine does not know
LineSteps ==
    [f : {"hline", "vline"}, level : Levels]
    \cup [f : {"hholes", "vholes", "add_hholes", "add_vholes"}, level : Levels, num : Nums]
    \cup [f : {"half_hline", "half_vline"}, level : Levels,
          which : SideH \cup SideV, extend_by : {0, 1}]

JoinSteps ==
    [f : {"corner"}, hlevel : {level_t, level_f}, vlevel : Levels,
     ch : CornerChars \cup {U253C}]
    \cup [f : {"vert_t"}, a : {level_t, level_f}, b : {level_t}, c : Levels,
          ch : {U251C, U2524}]
    \cup [f : {"horz_t"}, a : {level_t, level_f}, b : {level_t}, c : Levels,
          ch : {U252C, U2534}]
    \cup [f : {"cross"}, a : Levels, b : {level_t, level_f}, c : {level_t},
          d : {level_t, level_f}]

DoubleSteps ==
    [f : {"half_dhline"}, level : Levels, which : SideH \cup {"bottom"}, only : OnlyH]
    \cup [f : {"half_dvline"}, level : Levels, which : SideV \cup {"left"}, only : OnlyV]
    \cup [f : {"dhline"}, only : OnlyH \cup {"left"}, level : Levels]
    \cup [f : {"dvline"}, only : OnlyV \cup {"top"}, level : Levels]
    \cup [f : {"dvcorner"}, level : Levels, ch : {U2552, U2555, U2558, U255B}]
    \cup [f : {"dhcorner"}, level : Levels, ch : {U2553, U2556, U2559, U255C}]
    \cup [f : {"dcorner"}, level : Levels, ch : {U2554, U2557, U255A, U255D}]
    \cup [f : {"dpip"}, level : Levels, ch : {U255F, U2562, U2564, U2567}]
    \cup [f : {"inner_corner"}, which : Corners \cup {"x"}, level : Levels]

BlockSteps ==
    [f : {"vblock", "hblock"}, frac8 : 1..8, gravity : SideH \cup SideV]
    \cup [f : {"shade"}, light : BOOLEAN, invert : BOOLEAN]
    \cup [f : {"quad"}, x : {0, 1}, y : {0, 1}]

SsSteps ==
    [f : {"triangle", "D"}, left : BOOLEAN]
    \cup [f : {"corner_triangle"}, corner : TriangleCorners \cup {"middle"}]
    \cup [f : {"cross_line"}, left : BOOLEAN, level : Levels]
    \cup [f : {"half_cross_line"}, which : Corners \cup {"x"}, level : Levels]
    \cup [f : {"rounded_corner"}, level : Levels, ch : RoundedChars \cup {U253C}]

RoutineSteps == LineSteps \cup JoinSteps \cup DoubleSteps \cup BlockSteps \cup SsSteps

\* the routine that @supersampled() wraps, for the steps of SsRoutines
SsBody(g, s, b, w, h) ==
    CASE s.f = "triangle" -> triangle_body(b, w, h, s.left)
      [] s.f = "corner_triangle" -> corner_triangle_body(b, w, h, s.corner)
      [] s.f = "cross_line" -> cross_line_body(g, b, w, h, s.left, s.level)
      [] s.f = "half_cross_line" -> half_cross_line_body(g, b, w, h, s.which, s.level)
      [] s.f = "D" -> D_body(b, w, h, s.left)
      [] s.f = "rounded_corner" -> rounded_corner_body(g, b, w, h, s.level, s.ch)

\* func(buf, width, height) for one routine bound to its arguments
call_routine(step) ==
    /\ phase = "idle"
    /\ step.f \in SsRoutines => <<width, height>> \in SmallSizes
    /\ LET r == Apply(Globals, step, buf, width, height)
       IN  /\ buf' = r.buf
           /\ err' = r.err
    /\ old' = buf
    /\ call' = [NoCall EXCEPT !.op = "routine", !.step = step]
    /\ phase' = "done"
    /\ UNCHANGED <<_dpi, scale, width, height, ref, threads>>

\* the line primitives called on their own: ends inside the cell, before its first
\* column and beyond its last, a center inside the cell and beyond it
\* the bounds handed to fill_region for the first two columns, each bound a fraction
\* [n, d]: whole and half rows, an upper bound equal to and below the lower one
FillLimits ==
    {<<<<[n |-> 1, d |-> 1], [n |-> 3, d |-> 1]>>, <<[n |-> 3, d |-> 2], [n |-> 5, d |-> 2]>>>>,
     <<<<[n |-> 0, d |-> 1], [n |-> 0, d |-> 1]>>, <<[n |-> 2, d |-> 1], [n |-> 1, d |-> 1]>>>>,
     <<<<[n |-> 1, d |-> 2], [n |-> 1, d |-> 1]>>, <<[n |-> 0, d |-> 1], [n |-> 7, d |-> 2]>>>>}

RatOfFraction(fr) == Rat(BigOfInt(fr.n), BigOfInt(fr.d))

PrimitiveSteps ==
    [f : {"draw_hline", "draw_vline"}, from : {-1, 1}, to : {3, 9}, at : {0, 2, 9},
     level : Levels]
    \cup [f : {"fill_region"}, xlimits : FillLimits]

Primitive(g, s, b, w, h) ==
    CASE s.f = "draw_hline" -> draw_hline(g, b, w, s.from, s.to, s.at, s.level)
      [] s.f = "draw_vline" -> draw_vline(g, b, w, s.from, s.to, s.at, s.level)
      [] s.f = "fill_region" ->
            Res(fill_region(b, w, h, [x \in 1..Len(s.xlimits) |->
                                        <<RatOfFraction(s.xlimits[x][1]),
                                          RatOfFraction(s.xlimits[x][2])>>]), "ok")

call_primitive(step) ==
    /\ phase = "idle"
    /\ LET r == Primitive(Globals, step, buf, width, height)
       IN  /\ buf' = r.buf
           /\ err' = r.err
    /\ old' = buf
    /\ call' = [NoCall EXCEPT !.op = "primitive", !.step = step]
    /\ phase' = "done"
    /\ UNCHANGED <<_dpi, scale, width, height, ref, threads>>

\* the widths find_bezier_for_D is called with
MaxFindWidth == 24

\* c1x = find_bezier_for_D(w, height)
call_find_bezier_for_D(w) ==
    /\ phase = "idle"
    /\ call' = [NoCall EXCEPT !.op = "find_bezier_for_D",
                              !.step = [f |-> "find_bezier_for_D", width |-> w],
                              !.ret = find_bezier_for_D(w, height)]
    /\ old' = buf
    /\ phase' = "done"
    /\ UNCHANGED <<_dpi, scale, buf, width, height, err, ref, threads>>

\* a buffer as the caller has allocated it, of any of the sizes, zero or with content;
\* the globals are as some earlier render has left them
InitRoutines ==
    /\ _dpi \in DPIs
    /\ scale = default_scale
    /\ \E sz \in RoutineSizes, pat \in Patterns :
          /\ width = sz[1]
          /\ height = sz[2]
          /\ buf = PatternBuf(pat, sz[1], sz[2])
    /\ old = buf
    /\ call = NoCall
    /\ err = "ok"
    /\ phase = "idle"
    /\ ref = NoRef
    /\ threads = <<>>

NextRoutines ==
    \/ \E step \in RoutineSteps : call_routine(step)
    \/ \E step \in PrimitiveSteps : call_primitive(step)
    \/ \E w \in 1..MaxFindWidth : call_find_bezier_for_D(w)

SpecRoutines == InitRoutines /\ [][NextRoutines]_vars

\* ------------------------------------------------------ concurrent renders
\* Two threads call render_box_char, each on a zero buffer of its own; _dpi and scale
\* are the module's globals, shared by both.  A thread can be preempted between the
\* assignment to _dpi, the lookup of the recipe and any two steps of the recipe.

Threads == {1, 2}

ThreadWidth == 8

ThreadHeight == 8

\* the light cross, the heavy horizontal line, a two-quadrant block (two steps, both
\* independent of _dpi) and a character without a recipe
ThreadChars == {U253C, 9473, 9626, 65}

ThreadDPIs == {72, 144}

IdleThread == [pc |-> "idle", ch |-> -1, dpi |-> 0, buf |-> ZeroBuf(0), i |-> 0, err |-> "ok"]

\* render_box_char(ch, buf, width, height, dpi) is entered
thread_call(t, ch, dpi) ==
    /\ threads[t].pc = "idle"
    /\ threads' = [threads EXCEPT ![t] =
                      [pc |-> "entered", ch |-> ch, dpi |-> dpi,
                       buf |-> ZeroBuf(ThreadWidth * ThreadHeight),
                       i |-> 0, err |-> "ok"]]
    /\ UNCHANGED <<_dpi, scale, buf, width, height, old, call, err, phase, ref>>

\* _dpi = dpi
thread_set_dpi(t) ==
    /\ threads[t].pc = "entered"
    /\ _dpi' = render_dpi(_dpi, threads[t].dpi)
    /\ threads' = [threads EXCEPT ![t].pc = "lookup"]
    /\ UNCHANGED <<scale, buf, width, height, old, call, err, phase, ref>>

\* box_chars[ch]: a KeyError ends the call
thread_lookup(t) ==
    /\ threads[t].pc = "lookup"
    /\ threads' = [threads EXCEPT ![t] =
                      IF threads[t].ch \in DOMAIN box_chars
                      THEN [@ EXCEPT !.pc = "loop", !.i = 1]
                      ELSE [@ EXCEPT !.pc = "done", !.err = "KeyError"]]
    /\ UNCHANGED <<_dpi, scale, buf, width, height, old, call, err, phase, ref>>

\* one round of the loop: func(buf, width, height) with the globals as they are now,
\* or the return when the recipe is exhausted
thread_step(t) ==
    /\ threads[t].pc = "loop"
    /\ LET th == threads[t]
           steps == box_chars[th.ch]
       IN  threads' = [threads EXCEPT ![t] =
               IF th.i > Len(steps) THEN [th EXCEPT !.pc = "done"]
               ELSE (CHOOSE only \in {[th EXCEPT !.buf = r.buf, !.err = r.err, !.i = th.i + 1,
                                               !.pc = IF r.err = "ok" THEN "loop"
                                                      ELSE "done"]
                        : r \in {Apply(Globals, steps[th.i], th.buf,
                                       ThreadWidth, ThreadHeight)}} : TRUE)]
    /\ UNCHANGED <<_dpi, scale, buf, width, height, old, call, err, phase, ref>>

\* both calls have returned and their buffers are dropped
thread_join ==
    /\ \A t \in Threads : threads[t].pc = "done"
    /\ threads' = [t \in Threads |-> IdleThread]
    /\ UNCHANGED <<_dpi, scale, buf, width, height, old, call, err, phase, ref>>

InitThreads ==
    /\ _dpi = 96
    /\ scale = default_scale
    /\ width = ThreadWidth
    /\ height = ThreadHeight
    /\ buf = ZeroBuf(ThreadWidth * ThreadHeight)
    /\ old = buf
    /\ call = NoCall
    /\ err = "ok"
    /\ phase = "idle"
    /\ ref = NoRef
    /\ threads = [t \in Threads |-> IdleThread]

NextThreads ==
    \/ \E t \in Threads, ch \in ThreadChars, dpi \in ThreadDPIs : thread_call(t, ch, dpi)
    \/ \E t \in Threads : thread_set_dpi(t)
    \/ \E t \in Threads : thread_lookup(t)
    \/ \E t \in Threads : thread_step(t)
    \/ thread_join

SpecThreads == InitThreads /\ [][NextThreads]_vars

\* ------------------------------------------------- concurrent render claims

\* what the call of thread t produces when it runs alone
Alone(t) ==
    render_steps([dpi |-> threads[t].dpi, scale |-> scale], threads[t].ch,
                 ZeroBuf(ThreadWidth * ThreadHeight), ThreadWidth, ThreadHeight)

\* C6 as stated: when two render_box_char calls with different dpi values, each on its
\* own buffer, run with their steps interleaved, the buffer of a call that has returned
\* equals what the same call produces when run alone.
C6_ConcurrentRendersIndependent ==
    \A t \in Threads, u \in Threads :
        (/\ t # u
         /\ threads[t].pc = "done"
         /\ threads[u].pc # "idle"
         /\ threads[t].dpi # threads[u].dpi)
        => (threads[t].buf = Alone(t).buf /\ threads[t].err = Alone(t).err)

\* ------------------------------------------------------ routine claims

\* the rows (columns) center - t \div 2 .. center - t \div 2 + t - 1
Band(center, t) == (center - t \div 2)..(center - t \div 2 + t - 1)

RoutineDone == phase = "done" /\ call.op = "routine"

Col(q) == q % width

Row(q) == q \div width

BlockDone ==
    /\ RoutineDone
    /\ call.step.f \in {"vblock", "hblock"}
    /\ SelectorOK(call.step)
    /\ IsZero(old)

\* N is frac * dim rounded to the nearest integer, frac = frac8 / 8
Nearest(N, frac8, dim) == 2 * Abs(8 * N - frac8 * dim) <= 8

\* the N rows (columns) next to the gravity edge
InBlock(s, N, q) ==
    CASE s.gravity = "top" -> Row(q) < N
      [] s.gravity = "bottom" -> Row(q) >= height - N
      [] s.gravity = "left" -> Col(q) < N
      [] s.gravity = "right" -> Col(q) >= width - N

UpperHalfBlock == [f |-> "vblock", frac8 |-> 4, gravity |-> "top"]

\* C3: vblock (hblock) on a zero buffer sets exactly the N complete rows (columns)
\* next to the gravity edge to 255, N being frac * height (frac * width) rounded to
\* the nearest integer and at most the dimension, and leaves the rest 0; the upper
\* half block on 8x8 sets rows 0..3 to 255 and rows 4..7 to 0.
C3_BlockRows ==
    BlockDone =>
        /\ err = "ok"
        /\ LET dim == IF call.step.f = "vblock" THEN height ELSE width
           IN  \E N \in 0..dim :
                /\ Nearest(N, call.step.frac8, dim)
                /\ \A q \in DOMAIN buf :
                      buf[q] = IF InBlock(call.step, N, q) THEN 255 ELSE 0
        /\ (call.step = UpperHalfBlock /\ width = 8 /\ height = 8) =>
              \A q \in DOMAIN buf : buf[q] = IF Row(q) \in 0..3 THEN 255 ELSE 0

C3_Witness ==
    /\ BlockDone
    /\ call.step = UpperHalfBlock
    /\ width = 8
    /\ height = 8
    /\ buf[31] = 255
    /\ buf[32] = 0

\* hline followed by add_hholes, on a zero buffer, with the band inside the cell
HolesDone ==
    /\ RoutineDone
    /\ call.step.f = "hholes"
    /\ IsZero(old)
    /\ err = "ok"
    /\ Band(height \div 2, thickness(Globals, call.step.level)) \subseteq 0..(height - 1)

BandRows == Band(height \div 2, thickness(Globals, call.step.level))

\* the zeroed columns of row y, the columns where a run of them starts, and the
\* length of the run that starts at x
ZeroCols(y) == {x \in 0..(width - 1) : buf[y * width + x] = 0}

RunStarts(Z) == {x \in Z : x - 1 \notin Z}

RunLen(Z, x) == CHOOSE l \in 1..width : (\A i \in 0..(l - 1) : x + i \in Z) /\ x + l \notin Z

Symmetric(Z) == \A x \in 0..(width - 1) : x \in Z <=> (width - 1 - x) \in Z

C7_RoutinesTotal ==
    (RoutineDone /\ SelectorOK(call.step) /\ call.step.f # "D") => err = "ok"

\* C8 as stated: a call with a selector the routine does not know ends in an error
\* and draws nothing.
C8_MalformedRejected ==
    (RoutineDone /\ ~SelectorOK(call.step)) => (err # "ok" /\ buf = old)

SsDone == RoutineDone /\ call.step.f \in SsRoutines /\ err = "ok"

\* the sum of the 4 x 4 block of the scratch buffer that destination pixel q stands for
BlockSum(src, q) ==
    LET at(dx, dy) == src[(4 * Row(q) + dy) * (4 * width) + 4 * Col(q) + dx]
        row(dy) == at(0, dy) + at(1, dy) + at(2, dy) + at(3, dy)
    IN  row(0) + row(1) + row(2) + row(3)

\* C9: after a supersampled step every destination pixel is min(255, old + the sum of
\* the 16 pixels of its block of the scratch buffer \div 16), the scratch buffer being
\* a zero buffer of 4 * width by 4 * height drawn on by the wrapped routine; so no
\* pixel decreases, 255 stays 255 and a pixel with an empty block is unchanged.
C9_AddsNeverOverwrites ==
    SsDone =>
        (CHOOSE only \in {/\ DOMAIN scratch = 0..(16 * width * height - 1)
                /\ \A q \in DOMAIN buf :
                      /\ buf[q] = Min(255, old[q] + BlockSum(scratch, q) \div 16)
                      /\ buf[q] >= old[q]
                      /\ old[q] = 255 => buf[q] = 255
                      /\ BlockSum(scratch, q) = 0 => buf[q] = old[q]
            : scratch \in {ss_scratch(width, height,
                       LAMBDA b, w, h : SsBody(Globals, call.step, b, w, h)).buf}} : TRUE)

C9_Witness ==
    /\ SsDone
    /\ \E q \in DOMAIN buf : old[q] = 100 /\ buf[q] \in 101..254
    /\ \E q \in DOMAIN buf : old[q] = 200 /\ buf[q] = 255

Mirror(q) == Row(q) * width + (width - 1 - Col(q))

DDone == RoutineDone /\ call.step.f = "D" /\ IsZero(old) /\ err = "ok"

\* C10: on zero buffers of the same size D(left=True) and D(left=False) are exact
\* horizontal mirror images: the pixel at (x, y) of one is the pixel at
\* (width - 1 - x, y) of the other.
C10_DMirror ==
    DDone =>
        (CHOOSE only \in {r.err = "ok" /\ \A q \in DOMAIN buf : buf[q] = r.buf[Mirror(q)]
            : r \in {D(old, width, height, ~call.step.left)}} : TRUE)

C10_Witness ==
    /\ DDone
    /\ ~call.step.left
    /\ width = 4
    /\ \E q \in DOMAIN buf : buf[q] # buf[Mirror(q)]

PrimitiveDone == phase = "done" /\ call.op = "primitive"

LineDrawn == PrimitiveDone /\ call.step.f \in {"draw_hline", "draw_vline"}

\* C13: draw_hline and draw_vline are idempotent: the same call made again on the
\* buffer it has left, with _dpi and scale unchanged, gives that buffer again (and
\* ends the same way), whatever the buffer held and whatever the arguments are.
C13_LinesIdempotent ==
    LineDrawn =>
        /\ Primitive(Globals, call.step, buf, width, height).buf = buf
        /\ Primitive(Globals, call.step, buf, width, height).err = err

\* a vertical line drawn over earlier content, part of it wrapped from a negative index
C13_Witness ==
    /\ LineDrawn
    /\ call.step.f = "draw_vline"
    /\ call.step.from = -1
    /\ err = "ok"
    /\ ~IsZero(old)
    /\ buf # old

FillDone == PrimitiveDone /\ call.step.f = "fill_region"

\* the bounds of the column of pixel q
Upper(q) == call.step.xlimits[Col(q) + 1][1]

Lower(q) == call.step.xlimits[Col(q) + 1][2]

Bounded(q) == Col(q) < Len(call.step.xlimits)

\* C14 as stated: in every column with a pair of bounds, fill_region leaves at 255
\* exactly the rows strictly between the two bounds; a row on a bound or outside the
\* bounds is not 255.
C14_FillStrictlyBetween ==
    FillDone =>
        \A q \in DOMAIN buf :
            Bounded(q) =>
                (buf[q] = 255 <=> /\ Upper(q).n < Row(q) * Upper(q).d
                                  /\ Row(q) * Lower(q).d < Lower(q).n)

\* C14: in every column with a pair of bounds, fill_region sets the rows from the upper
\* to the lower bound, both included (upper <= y <= lower), to 255 and every other
\* row to 0; the columns without bounds keep what they held.
C14_FillInclusive ==
    FillDone =>
        /\ err = "ok"
        /\ \A q \in DOMAIN buf :
              buf[q] = IF ~Bounded(q) THEN old[q]
                       ELSE IF /\ Upper(q).n <= Row(q) * Upper(q).d
                               /\ Row(q) * Lower(q).d <= Lower(q).n
                            THEN 255 ELSE 0

\* rows 1 and 3 lie on the bounds of column 0 and are filled; column 2 is kept
C14_Witness ==
    /\ FillDone
    /\ call.step.xlimits[1] = <<[n |-> 1, d |-> 1], [n |-> 3, d |-> 1]>>
    /\ width = 8
    /\ height = 8
    /\ ~IsZero(old)
    /\ buf[1 * 8 + 0] = 255
    /\ buf[3 * 8 + 0] = 255
    /\ buf[4 * 8 + 0] = 0
    /\ buf[2 * 8 + 2] = old[2 * 8 + 2]

FindDone == phase = "done" /\ call.op = "find_bezier_for_D"

\* C15: for every width >= 1 find_bezier_for_D returns the largest offset cx >= width - 1
\* whose curve has its midpoint x, 3 * cx / 4, at or before the far edge width - 1: the
\* offset the search from width - 1 in steps of 1 reaches just before the first overshoot.
C15_LargestOffset ==
    FindDone =>
        /\ call.ret >= call.step.width - 1
        /\ 3 * call.ret <= 4 * (call.step.width - 1)
        /\ 3 * (call.ret + 1) > 4 * (call.step.width - 1)

\* the search has moved on from its start, twice
C15_Witness == FindDone /\ call.step.width = 9 /\ call.ret = 10

\* corner has drawn one of the four corner characters on a zero buffer
CornerDone ==
    /\ RoutineDone
    /\ call.step.f = "corner"
    /\ call.step.ch \in CornerChars
    /\ call.step.hlevel \in {level_t, level_f}
    /\ call.step.vlevel \in {level_t, level_f}
    /\ IsZero(old)

\* C16: after corner() on a zero buffer, for each of the four orientations and each
\* pair of levels in {1, 3} x {1, 3}, every pixel whose row lies in the row band of the
\* horizontal arm and whose column lies in the column band of the vertical arm is 255.
C16_CornerArmsJoin ==
    CornerDone =>
        \A q \in DOMAIN buf :
            (/\ Row(q) \in Band(height \div 2, thickness(Globals, call.step.hlevel))
             /\ Col(q) \in Band(width \div 2, thickness(Globals, call.step.vlevel)))
                => buf[q] = 255

\* ------------------------------------------------------- render claims

RenderDone == phase = "done" /\ call.op = "render_box_char"

\* the caller renders again what it has kept, after a render at another dpi
Rerendered ==
    /\ RenderDone
    /\ IsZero(old)
    /\ ref # NoRef
    /\ ref.mid
    /\ call.ch = ref.ch
    /\ call.dpi = ref.dpi
    /\ width = ref.width
    /\ height = ref.height
    /\ call.ch \in DOMAIN box_chars

\* C1: a character with a recipe rendered into a zero buffer at d1, then any render at
\* another dpi, then the same character into a fresh zero buffer at d1 again: the
\* second buffer (and outcome) is identical to the first.
C1_RerenderIdentical == Rerendered => (buf = ref.buf /\ err = ref.err)

C1_Witness == Rerendered /\ ~IsZero(buf) /\ call.dpi = 144

LightCrossRendered ==
    /\ RenderDone
    /\ call.ch = U253C
    /\ call.dpi = 96
    /\ width = 16
    /\ height = 16
    /\ IsZero(old)

\* C2: the light cross rendered into a zero 16x16 buffer at 96 dpi has every pixel of
\* the central row band and of the central column band, each thickness(1) wide, at
\* 255 and every other pixel at 0.
C2_LightCrossBands ==
    LightCrossRendered =>
        /\ err = "ok"
        /\ \A q \in DOMAIN buf :
              buf[q] = IF \/ (q \div width) \in Band(height \div 2, thickness(Globals, 1))
                          \/ (q % width) \in Band(width \div 2, thickness(Globals, 1))
                       THEN 255 ELSE 0

C2_Witness == LightCrossRendered /\ buf[7 * 16 + 0] = 255 /\ buf[0] = 0 /\ buf[8] = 255

UnknownRendered == RenderDone /\ call.ch \notin DOMAIN box_chars

\* C5: render_box_char of a character without a recipe ends in the error of the failed
\* lookup and leaves the buffer exactly as it was.
C5_UnknownGlyphUntouched == UnknownRendered => (err = "KeyError" /\ buf = old)

C5_Witness == UnknownRendered /\ ~IsZero(old) /\ call.dpi # 96

\* C17: a render_box_char that has failed for want of a recipe leaves _dpi and scale as
\* they were before the call, and render_missing_glyph called after it gives the
\* buffer it would have given had the failed call not been made.
C17_FailedRenderKeepsState ==
    UnknownRendered =>
        /\ Globals = call.was
        /\ render_missing_glyph_draw(Globals, buf, width, height)
              = render_missing_glyph_draw(call.was, old, width, height)

\* render_missing_glyph has drawn into a zero 8x8 buffer
MissingGlyphRendered ==
    /\ phase = "done"
    /\ call.op = "render_missing_glyph"
    /\ width = 8
    /\ height = 8
    /\ IsZero(old)

\* the pixels of an 8 pixels wide cell on the sides of the rectangle of rows top..bottom
\* and columns left..right
Perimeter(top, bottom, left, right) ==
    {q \in 0..63 : /\ Row(q) \in top..bottom
                   /\ Col(q) \in left..right
                   /\ (Row(q) \in {top, bottom} \/ Col(q) \in {left, right})}

\* every side of some rectangle with an inside is drawn, corners included
ClosedRing ==
    \E top, bottom, left, right \in 0..7 :
        /\ top + 1 < bottom
        /\ left + 1 < right
        /\ \A q \in Perimeter(top, bottom, left, right) : buf[q] = 255

OuterBorder == Perimeter(0, 7, 0, 7)

ExactCenter == {q \in 0..63 : Row(q) \in 3..4 /\ Col(q) \in 3..4}

\* C11 as stated: render_missing_glyph on a zero 8x8 buffer draws a closed rectangular
\* ring and sets no pixel of the outer 1-pixel border and none of the exact center,
\* whatever scale table and dpi are in effect.
C11_RingAsStated ==
    MissingGlyphRendered =>
        /\ err = "ok"
        /\ ClosedRing
        /\ \A q \in OuterBorder \cup ExactCenter : buf[q] = 0

\* C11: when the level 0 thickness is one pixel (the default table at every dpi
\* rendered), render_missing_glyph on a zero 8x8 buffer sets exactly the sides of the
\* rectangle of rows 2..6 and columns 2..6: a closed ring clear of the outer border
\* and of the center.
C11_RingHairline ==
    (MissingGlyphRendered /\ thickness(Globals, 0) = 1) =>
        /\ err = "ok"
        /\ \A q \in DOMAIN buf : buf[q] = IF q \in Perimeter(2, 6, 2, 6) THEN 255 ELSE 0

C11_Witness ==
    /\ MissingGlyphRendered
    /\ thickness(Globals, 0) = 1
    /\ _dpi = 144
    /\ buf[2 * 8 + 6] = 255
    /\ buf[6 * 8 + 6] = 255
    /\ buf[3 * 8 + 3] = 0

\* C12: with the scale table and the dpi in effect, thickness(L) is at least 1 for every
\* level L in 0..3, does not decrease from a level to the next, and does not decrease
\* when the dpi is raised.
C12_ThicknessMonotone ==
    \A L \in Levels :
        /\ thickness(Globals, L) >= 1
        /\ (L < 3 => thickness(Globals, L) <= thickness(Globals, L + 1))
        /\ \A dpi \in DPIs :
              (dpi >= _dpi =>
                  thickness(Globals, L) <= thickness([Globals EXCEPT !.dpi = dpi], L))
====
